---------------------------- MODULE Spec2Model ----------------------------
(***************************************************************************)
(* react-kitten: the window registry (SpaceWindows), the snap engine of    *)
(* Space (onWindowBoundsChange, onUserBoundsChangeEnd, the unmounted-ids   *)
(* reap) and the parts of Window that drive it (title-bar drag, resizer    *)
(* drag, staged effect, toSnap effect, unmount cleanup).                   *)
(*                                                                         *)
(* A SpaceWindow object is identified by its id: the registry holds one    *)
(* object per id and every Snapping, Snap and ToSnap holds references to   *)
(* registry objects, so a reference is modelled as the id and the objects  *)
(* live in the heap `objs`.  `windowsRef` is the key order of the Map.     *)
(***************************************************************************)
EXTENDS Integers, Sequences, FiniteSets, TLC

\* ------------------------------------------------------------------ bounds
\* the window ids of one workspace, in mount order
Ids == <<"A", "B", "C", "D", "E", "F">>
IdSet == {Ids[i] : i \in 1..Len(Ids)}

\* where each window is mounted
InitialPosition == [w \in IdSet |->
    CASE w = "A" -> <<100, 100>>
      [] w = "B" -> <<500, 100>>
      [] w = "C" -> <<525, 105>>
      [] w = "E" -> <<300, 100>>
      [] w = "F" -> <<700, 300>>
      [] OTHER   -> <<500, 400>>]

\* the size each window is mounted with
InitialSize == [w \in IdSet |->
    CASE w = "C" -> <<200, 180>>
      [] w \in {"E", "F"} -> <<40, 150>>
      [] OTHER -> <<200, 150>>]

\* the positions a title-bar drag can drop window w at (manager space): the place
\* right of A's mount position, and the place the window was mounted at
DropPoints(w) == { <<305, 105>>, InitialPosition[w] }

\* the scenarios a behaviour starts from: the windows mounted in the workspace, the
\* windows whose title bar, resizers, staged prop and lifetime the environment drives,
\* whether it drags the shared mover and resizer of committed Snaps, the windows it
\* mounts later, the windows whose alwaysOnTop prop it drives and the windows whose
\* content it clicks
Scenarios ==
    { [ids |-> {"A", "B"}, draggable |-> {"B"}, resizable |-> {"B"},
       stageable |-> {"A", "B"}, unmountable |-> {"A", "B"}, snapControls |-> FALSE,
       late |-> {}, pinnable |-> {}, clickable |-> {}, confined |-> {}],
      [ids |-> {"A", "B", "C"}, draggable |-> {"B", "C"}, resizable |-> {},
       stageable |-> {"B"}, unmountable |-> {"B", "C"}, snapControls |-> FALSE,
       late |-> {}, pinnable |-> {}, clickable |-> {}, confined |-> {}],
      [ids |-> {"A", "B", "C", "D"}, draggable |-> {"C", "D"}, resizable |-> {},
       stageable |-> {}, unmountable |-> {}, snapControls |-> FALSE,
       late |-> {}, pinnable |-> {}, clickable |-> {}, confined |-> {}] }

\* the scenarios of the shared controls: B can be snapped to A by its title bar, D is a
\* bystander, and the environment drags the SnapMover and SnapResizer of the Snap
SnapControlScenarios ==
    { [ids |-> {"A", "B", "D"}, draggable |-> {"B"}, resizable |-> {},
       stageable |-> {}, unmountable |-> {}, snapControls |-> TRUE,
       late |-> {}, pinnable |-> {}, clickable |-> {}, confined |-> {}] }

\* the scenarios of focus and z-index: A and B are mounted, C mounts later, B can be
\* snapped to A by its title bar and can unmount
FocusScenarios ==
    { [ids |-> {"A", "B"}, draggable |-> {"B"}, resizable |-> {},
       stageable |-> {}, unmountable |-> {"B"}, snapControls |-> FALSE,
       late |-> {"C"}, pinnable |-> {"A", "B"}, clickable |-> {"A", "C"}, confined |-> {}] }

\* the scenarios of focus on snapped windows: B and C can be snapped by their title
\* bars, and every window can take the focus
SnapFocusScenarios ==
    { [ids |-> {"A", "B", "C"}, draggable |-> {"B", "C"}, resizable |-> {},
       stageable |-> {}, unmountable |-> {}, snapControls |-> FALSE,
       late |-> {}, pinnable |-> {}, clickable |-> {"A", "B", "C"}, confined |-> {}] }

\* the scenario of the registry: no Window is mounted yet; A and B mount, B is dragged
\* by its title bar, and the host closes, reopens and places A
RegistryScenarios ==
    { [ids |-> {}, draggable |-> {"B"}, resizable |-> {},
       stageable |-> {}, unmountable |-> {"A"}, snapControls |-> FALSE,
       late |-> {"A", "B"}, pinnable |-> {}, clickable |-> {}, confined |-> {}] }

\* the scenario of a Snap evaluated while its own control is dragged: B can be snapped
\* to A by its title bar, the host stages and unstages A, and the environment drags
\* the SnapMover and SnapResizer of the Snap
SupersedeScenarios ==
    { [ids |-> {"A", "B"}, draggable |-> {"B"}, resizable |-> {},
       stageable |-> {"A"}, unmountable |-> {}, snapControls |-> TRUE,
       late |-> {}, pinnable |-> {}, clickable |-> {}, confined |-> {}] }

\* the scenarios of narrow windows: F, as narrow as E, can be dropped onto E so that both
\* of its edges are near both edges of E; B is an ordinary window
ProximityScenarios ==
    { [ids |-> {"B", "E", "F"}, draggable |-> {"B", "F"}, resizable |-> {},
       stageable |-> {}, unmountable |-> {}, snapControls |-> FALSE,
       late |-> {}, pinnable |-> {}, clickable |-> {}, confined |-> {}] }

\* the highest value of the z-index counter at which the environment still acts
MaxCounter == 1004

\* the scenario of the viewport: one window, which its host may confine to the manager
\* (allowOutside unset) or exempt from compensation, and whose title bar is dragged
ViewportScenarios ==
    { [ids |-> {"A"}, draggable |-> {"A"}, resizable |-> {},
       stageable |-> {}, unmountable |-> {}, snapControls |-> FALSE,
       late |-> {}, pinnable |-> {}, clickable |-> {}, confined |-> {"A"}] }

\* the scenario of the wheel-busy flag: A is dragged and resized, B mounts later
WheelScenarios ==
    { [ids |-> {"A"}, draggable |-> {"A"}, resizable |-> {"A"},
       stageable |-> {}, unmountable |-> {}, snapControls |-> FALSE,
       late |-> {"B"}, pinnable |-> {}, clickable |-> {}, confined |-> {}] }

\* the wheel event the user produces while a window is handled
WheelTurns == { <<300, 0>> }

\* the scenario of the carousel: one window that nothing is done to
CarouselScenarios ==
    { [ids |-> {"A"}, draggable |-> {}, resizable |-> {},
       stageable |-> {}, unmountable |-> {}, snapControls |-> FALSE,
       late |-> {}, pinnable |-> {}, clickable |-> {}, confined |-> {}] }

\* the most timers a step is offered to fire
MaxTimers == 2

\* the workspace whose host turns snapping off: B is dragged and resized next to A
SnapOffScenarios ==
    { [ids |-> {"A", "B"}, draggable |-> {"B"}, resizable |-> {"B"},
       stageable |-> {}, unmountable |-> {}, snapControls |-> FALSE,
       late |-> {}, pinnable |-> {}, clickable |-> {}, confined |-> {}] }

\* the scenario of a bystander: B is dragged next to A while the host changes the staged
\* prop of D, which is far from both
BystanderScenarios ==
    { [ids |-> {"A", "B", "D"}, draggable |-> {"B"}, resizable |-> {},
       stageable |-> {"D"}, unmountable |-> {}, snapControls |-> FALSE,
       late |-> {}, pinnable |-> {}, clickable |-> {}, confined |-> {}] }

\* the scenario of a fast mover drag: B can be snapped to A by its title bar and the
\* environment drags the SnapMover of the Snap
JerkScenarios ==
    { [ids |-> {"A", "B"}, draggable |-> {"B"}, resizable |-> {},
       stageable |-> {}, unmountable |-> {}, snapControls |-> TRUE,
       late |-> {}, pinnable |-> {}, clickable |-> {}, confined |-> {}] }

\* the scenario of configured size bounds: C, whose host fixes its height, can be snapped
\* to A by its title bar and resized by its resizer, and the environment drags the
\* SnapResizer of the Snap
SizeBoundsScenarios ==
    { [ids |-> {"A", "C"}, draggable |-> {"C"}, resizable |-> {"C"},
       stageable |-> {}, unmountable |-> {}, snapControls |-> TRUE,
       late |-> {}, pinnable |-> {}, clickable |-> {}, confined |-> {}] }

\* the scenario of the listeners: A is dragged, resized and unmounted, D stays where it
\* is, far from A
ListenerScenarios ==
    { [ids |-> {"A", "D"}, draggable |-> {"A"}, resizable |-> {"A"},
       stageable |-> {}, unmountable |-> {"A"}, snapControls |-> FALSE,
       late |-> {}, pinnable |-> {}, clickable |-> {}, confined |-> {}] }

\* the scenario of staging and unstaging: B is dragged by its title bar, staged by its
\* stage button and unstaged by a click, A stays where it is
UnstageScenarios ==
    { [ids |-> {"A", "B"}, draggable |-> {"B"}, resizable |-> {},
       stageable |-> {"B"}, unmountable |-> {}, snapControls |-> FALSE,
       late |-> {}, pinnable |-> {}, clickable |-> {}, confined |-> {}] }

\* the scenario of a window closed from another one: B can be snapped to A by its title
\* bar, and a click in A makes the host unmount B
CloseScenarios ==
    { [ids |-> {"A", "B"}, draggable |-> {"B"}, resizable |-> {},
       stageable |-> {}, unmountable |-> {"B"}, snapControls |-> FALSE,
       late |-> {}, pinnable |-> {}, clickable |-> {"A"}, confined |-> {}] }

\* the scenarios of the staging zone: the environment drags the title bars of A and B
StagingScenarios ==
    { [ids |-> {"A", "B"}, draggable |-> {"A", "B"}, resizable |-> {},
       stageable |-> {}, unmountable |-> {}, snapControls |-> FALSE,
       late |-> {}, pinnable |-> {}, clickable |-> {}, confined |-> {}] }

\* the mouse buttons the environment presses (MouseEvent.button 0 and 2)
Buttons == { "primary", "secondary" }

\* where inside a title bar the pointer grabs it (event.clientX - rect.x, clientY - rect.y)
\* the scenarios of the edge resizers: A, with the default size bounds, or C, whose host
\* fixes its height, is resized by the resizers of its left and top edges and corners
EdgeScenarios ==
    { [ids |-> {"A", "C"}, draggable |-> {}, resizable |-> {w},
       stageable |-> {}, unmountable |-> {}, snapControls |-> FALSE,
       late |-> {}, pinnable |-> {}, clickable |-> {}, confined |-> {}] : w \in {"A", "C"} }

GrabOffsets == { <<10, 5>> }

\* the places a drag takes the pointer to (manager-local pixels): left of the default
\* stagingDistance, between it and its double, and right of both
PointerPoints == { <<140, 300>>, <<200, 300>>, <<420, 300>> }

\* horizontal pointer deltas a drag of the right resizer can deliver
ResizeDeltas == { 50, -50 }

\* pointer deltas a drag of a resizer of the left or top edge, or of a corner, can
\* deliver: towards the bottom right and towards the top left
EdgeDeltas == { <<100, 100>>, <<-100, -100>> }

\* how far from its mount position, along each axis, a resizer drag takes a window
MaxTravel == 100

\* the widest and tallest a drag of such a resizer makes a window
MaxExtent == 350

\* the widest a resizer drag makes a window (maxSize is not configured)
MaxWidth == 250

\* pointer deltas a drag of a Snap's shared mover can deliver
MoverDeltas == { <<30, 10>>, <<-30, -10>> }

\* the pointer deltas of a fast drag of a Snap's shared mover: one pointer event can
\* carry more than the snap threshold
MoverJerks == MoverDeltas \cup { <<-60, -20>>, <<60, 20>> }

\* the range of x a mover drag keeps the left member of its Snap in
MinLeft == 70
MaxLeft == 130

\* horizontal pointer deltas a drag of a Snap's shared resizer can deliver
SnapResizerDeltas == { 30, -30 }

\* the widest a drag of a Snap's shared resizer makes a member
MaxSnapWidth == 320

\* ------------------------------------------------------------ program constants
\* Manager.tsx: the size a Manager has when its host passes none
DEFAULT_SIZE == <<800, 600>>

DEFAULT_SNAP_MARGIN == 20
DEFAULT_SNAP_THRESHOLD == 50
Undefined == -1

DEFAULT_MIN_SIZE == <<100, 100>>

\* Window.tsx: no maxSize when the host passes none (null)
DEFAULT_MAX_SIZE == <<>>

\* the minSize and maxSize props of each window: the host gives C a fixed height, the
\* other windows take the defaults
minSize == [w \in IdSet |-> IF w = "C" THEN <<100, 180>> ELSE DEFAULT_MIN_SIZE]
maxSize == [w \in IdSet |-> IF w = "C" THEN <<400, 180>> ELSE DEFAULT_MAX_SIZE]

ALWAYS_ON_TOP_Z_INDEX == 1000000

DEFAULT_STAGING_DISTANCE == 150

\* useState<string | null>(null): no focused window
Null == ""

\* React.useState<number>(1000): the z-index counter of a new Space
InitialZIndexCounter == 1000

\* Space: the snap option when its host passes none
DEFAULT_SNAP == TRUE

\* the configurations (props of Manager and Space) a behaviour starts from
Configurations ==
    { [scale |-> <<1, 1>>, snapWith |-> sw, snapMargin |-> DEFAULT_SNAP_MARGIN,
       snapThreshold |-> DEFAULT_SNAP_THRESHOLD, snap |-> DEFAULT_SNAP] : sw \in {"all", "move", "resize"} }
    \cup
    { [scale |-> sc, snapWith |-> "all", snapMargin |-> DEFAULT_SNAP_MARGIN,
       snapThreshold |-> DEFAULT_SNAP_THRESHOLD, snap |-> DEFAULT_SNAP] : sc \in {<<2, 1>>, <<1, 2>>} }

\* the configurations of a workspace whose host turns snapping off
SnapOffConfigurations ==
    { [scale |-> <<1, 1>>, snapWith |-> sw, snapMargin |-> DEFAULT_SNAP_MARGIN,
       snapThreshold |-> DEFAULT_SNAP_THRESHOLD, snap |-> FALSE] :
           sw \in {"all", "move", "resize"} }

\* the configurations that differ in snapMargin and snapThreshold: the margin below,
\* at and above the threshold
MarginConfigurations ==
    { [scale |-> <<1, 1>>, snapWith |-> "all", snapMargin |-> mt[1],
       snapThreshold |-> mt[2], snap |-> DEFAULT_SNAP] :
           mt \in { <<DEFAULT_SNAP_MARGIN, DEFAULT_SNAP_THRESHOLD>>,
                    <<DEFAULT_SNAP_THRESHOLD, DEFAULT_SNAP_THRESHOLD>>,
                    <<DEFAULT_SNAP_THRESHOLD + 10, DEFAULT_SNAP_THRESHOLD>> } }

VARIABLES
    \* ---- configuration (props of Manager and Space), fixed in a behaviour
    env,                \* the scenario
    props,              \* scale (Manager), snapWith, snapMargin, snapThreshold (Space)
    \* ---- Space
    windowsRef,         \* key order of windowsRef.current (the registry Map)
    objs,               \* the SpaceWindow objects, by id
    snapping,           \* useState<Snapping | null>: <<>> or <<s>>
    snaps,              \* useState<Snap[]>: the committed (rendered) list
    snapsRef,           \* snapsRef.current
    toSnap,             \* useState<ToSnap | null>: <<>> or <<t>>
    unmountedWindows,   \* useState<string[]>
    \* ---- Windows (controlled props and state), by id
    mounted, position, size, staged, moving, resizing,
    \* ---- scheduling of the effects that follow a handler
    pc,
    \* ---- observation of the last proximity evaluation (nearbyWindows)
    lastEval,
    \* ---- observation of the last step: what ran, for which windows, and the
    \*      snapping, committed list and bounds it started from
    lastOp,
    \* ---- the shared controls of committed Snaps: the SnapMover or SnapResizer whose
    \*      dragging state is true (<<>> or <<[kind, key]>>, key = the Snap's React key),
    \*      and each Window's snapMoving state
    snapDrag, snapMoving,
    \* ---- observation of the toSnap effects: the Windows that applied the ToSnap
    \*      object held in toSnap, in the order they did
    applied,
    \* ---- focus and z-index: Space state, then Window props, state and refs by id
    focusedWindow,              \* useState<string | null>
    windowZIndexCounter,        \* useState<number>
    alwaysOnTop,                \* prop
    focused, zIndex,            \* useState
    prevAlwaysOnTopRef, windowZIndexCounterRef,
    \* ---- the dependency values the effects of each Window, and of the Space, last
    \*      ran with (<<>> before their first run)
    seen, spaceSeen,
    \* ---- observation of the last focus event: what it was, for which windows, and the
    \*      counter and z-indexes it started from
    focusOp,
    \* ---- the pointer: Manager state (position, manager-local pixels), Space state
    \*      (lmb), the buttons the user holds down, then Window state (staging) and
    \*      TitleBar ref (moveStartPointerRef) by id
    pointer, lmb, buttons, staging, moveStartPointerRef,
    \* ---- observation of the current title-bar drag: whether its pointer was inside
    \*      the staging zone at some time
    enteredZone,
    \* ---- the Space's registry and references at the level of objects: the SpaceWindow
    \*      objects ever inserted (by address), the Map of windowsRef.current (addresses
    \*      in insertion order), the snapping state and the snaps list with their
    \*      references as addresses, and the observation of the last step on them
    heap, registry, tentative, committed, registryOp,
    \* ---- the viewport: the Manager's size prop, then by Window id the allowOutside and
    \*      compensatePositionOnViewportResize props, the prevManagerSize state, and the
    \*      dependencies that changed since the Window's effects last ran; then the
    \*      observation of the last size change: the positions it started from
    managerSize, allowOutside, compensatePositionOnViewportResize, prevManagerSize,
    prevPositionRef, changed, viewOp,
    \* ---- the carousel: Manager state wheelBusy, the space prop of Spaces, its scrollX
    \*      state, the pending bounce timers (each with the values its callback closed
    \*      over) and which of them bounceTimeoutRef refers to (0: none); then the
    \*      observation of the last step
    wheelBusy, space, scrollX, timers, bounceTimeoutRef, wheelOp,
    \* ---- the Space's event dispatcher: by event type the listeners it holds, in order
    \*      (each the callback of one render of one Window), and by Window id the
    \*      generation of its current move and resize callbacks
    listeners, callbackGen,
    \* ---- staging by Window id: the stagedBy and movingStartPosition states; then the
    \*      observation of the last step: where the last drag of each window began, where
    \*      the window was when it was staged, and what staged it
    stagedBy, movingStartPosition, stageOp

vars == << env, props, windowsRef, objs, snapping, snaps, snapsRef, toSnap,
           unmountedWindows, mounted, position, size, staged, moving, resizing,
           pc, lastEval, lastOp, snapDrag, snapMoving, applied, focusedWindow,
           windowZIndexCounter, alwaysOnTop, focused, zIndex, prevAlwaysOnTopRef,
           windowZIndexCounterRef, seen, spaceSeen, focusOp, pointer, lmb, buttons,
           staging, moveStartPointerRef, enteredZone, heap, registry, tentative,
           committed, registryOp, managerSize, allowOutside,
           compensatePositionOnViewportResize, prevManagerSize, prevPositionRef, changed,
           viewOp, wheelBusy, space, scrollX, timers, bounceTimeoutRef, wheelOp,
           listeners, callbackGen, stagedBy, movingStartPosition, stageOp >>

\* the object-level registry and references
heapVars == << heap, registry, tentative, committed, registryOp >>

\* the parts of the state that the steps of the snap engine, of focus and of the staging
\* zone leave alone
\* the viewport part of the state
viewVars == << managerSize, allowOutside, compensatePositionOnViewportResize,
               prevManagerSize, prevPositionRef, changed, viewOp >>

\* the carousel part of the state
carouselVars == << wheelBusy, space, scrollX, timers, bounceTimeoutRef, wheelOp >>

\* the event dispatcher's part of the state
dispatcherVars == << listeners, callbackGen >>

\* the part of the state that remembers how a window was staged
stageVars == << stagedBy, movingStartPosition, stageOp >>

elsewhereVars == << heapVars, viewVars, carouselVars, dispatcherVars, stageVars >>

\* the pointer part of the state
pointerVars == << pointer, lmb, buttons, staging, moveStartPointerRef, enteredZone >>

\* the focus and z-index part of the state
focusVars == << focusedWindow, windowZIndexCounter, alwaysOnTop, focused, zIndex,
                prevAlwaysOnTopRef, windowZIndexCounterRef, seen, spaceSeen, focusOp >>

\* ------------------------------------------------------------------ helpers
Abs(x) == IF x < 0 THEN -x ELSE x

Range(s) == {s[i] : i \in 1..Len(s)}

RECURSIVE SelectSeqBy(_, _)
\* Array.prototype.filter with a predicate given as the set of kept elements
SelectSeqBy(s, keep) ==
    IF s = <<>> THEN <<>>
    ELSE IF Head(s) \in keep THEN <<Head(s)>> \o SelectSeqBy(Tail(s), keep)
         ELSE SelectSeqBy(Tail(s), keep)

\* ------------------------------------------------------------- ScaleTransform
\* x * scale[0], y * scale[1], x / scale[0], y / scale[1]; the scales, sizes and pointer
\* deltas of the bounds keep every quotient exact
scaleX(v) == v * props.scale[1]
scaleY(v) == v * props.scale[2]
revertScaleX(v) == v \div props.scale[1]
revertScaleY(v) == v \div props.scale[2]

\* ------------------------------------------------------- SpaceWindow, SpaceWindows
\* new SpaceWindow(id, position, size, moving, resizing, staged): clockPosition undefined
SpaceWindow(id, pos, sz, mov, res, stg) ==
    [id |-> id, position |-> pos, size |-> sz, moving |-> mov, resizing |-> res,
     staged |-> stg, clockPosition |-> Undefined]

\* SpaceWindow.equals, on the objects two references point to
WindowEquals(o, a, b) ==
    /\ o[a].id = o[b].id
    /\ o[a].position = o[b].position
    /\ o[a].size = o[b].size
    /\ o[a].moving = o[b].moving
    /\ o[a].resizing = o[b].resizing

\* SpaceWindows.has on the registry
RegistryHas(sp, id) == id \in Range(sp.windowsRef)

\* SpaceWindows.set: insert, or update position, size and clockPosition in place
SpaceWindowsSet(sp, w) ==
    IF RegistryHas(sp, w.id)
    THEN [sp EXCEPT !.objs[w.id].position = w.position,
                    !.objs[w.id].size = w.size,
                    !.objs[w.id].clockPosition = w.clockPosition]
    ELSE [sp EXCEPT !.windowsRef = Append(@, w.id), !.objs[w.id] = w]

\* SpaceWindows.filter: a new registry holding the same objects, in the same order
SpaceWindowsFilter(sp, keep) ==
    [sp EXCEPT !.windowsRef = SelectSeqBy(@, keep)]

\* --------------------------------------------------------------- Snapping, Snap
\* new Snapping('horizontal', interactedWindow, relatedWindows, leftWindow, rightWindow)
Snapping(interacted, related, left, right) ==
    [orientation |-> "horizontal", interactedWindow |-> interacted,
     relatedWindows |-> related, leftWindow |-> left, rightWindow |-> right]

\* Snapping.equals(other), other possibly null
SnappingEquals(o, s, other) ==
    /\ other # <<>>
    /\ s.orientation = other[1].orientation
    /\ WindowEquals(o, s.leftWindow, other[1].leftWindow)
    /\ WindowEquals(o, s.rightWindow, other[1].rightWindow)

\* new Snap(...): a Snapping plus snapMoving, snapResizing, zIndex
Snap(s) ==
    [orientation |-> s.orientation, interactedWindow |-> s.interactedWindow,
     relatedWindows |-> s.relatedWindows, leftWindow |-> s.leftWindow,
     rightWindow |-> s.rightWindow, snapMoving |-> FALSE, snapResizing |-> FALSE,
     zIndex |-> 0]

\* snap.relatedWindows.has(id)
RelatedHas(s, id) == id \in s.relatedWindows

\* snapsRef.current.filter(snap => !snap.relatedWindows.has(id))
WithoutWindow(list, id) == SelectSeq(list, LAMBDA s : ~RelatedHas(s, id))

\* snapsRef.current.filter(snap => !snap.equals(existingSnap))
WithoutEqual(o, list, e) == SelectSeq(list, LAMBDA s : ~SnappingEquals(o, s, <<e>>))

\* setSnaps([...snapsRef.current])
SetSnaps(sp) == [sp EXCEPT !.snaps = sp.snapsRef]

\* ------------------------------------------------------ proximity (nearbyWindows)
\* a faulty variant of Classify that measures right and bottom edges with unscaled sizes
ClassifyUnscaled(other, id, pos, sz, threshold) ==
    LET left_right_distance == Abs((other.position[1] + other.size[1]) - pos[1])
        top_distance == Abs(other.position[2] - pos[2])
        bottom_distance == Abs((other.position[2] + other.size[2]) - (pos[2] + sz[2]))
        right_left_distance == Abs(other.position[1] - (pos[1] + sz[1]))
    IN  IF other.id = id THEN Undefined
        ELSE IF other.staged THEN Undefined
        ELSE IF /\ left_right_distance <= threshold
                /\ top_distance <= threshold
                /\ bottom_distance <= threshold THEN 0
        ELSE IF /\ right_left_distance <= threshold
                /\ top_distance <= threshold
                /\ bottom_distance <= threshold THEN 1
        ELSE Undefined

\* a faulty variant of Classify that records the mirrored edge hint
ClassifyMirrored(other, id, pos, sz, threshold) ==
    LET left_right_distance == Abs((other.position[1] + scaleX(other.size[1])) - pos[1])
        top_distance == Abs(other.position[2] - pos[2])
        bottom_distance == Abs((other.position[2] + scaleY(other.size[2]))
                               - (pos[2] + scaleY(sz[2])))
        right_left_distance == Abs(other.position[1] - (pos[1] + scaleX(sz[1])))
    IN  IF other.id = id THEN Undefined
        ELSE IF other.staged THEN Undefined
        ELSE IF /\ left_right_distance <= threshold
                /\ top_distance <= threshold
                /\ bottom_distance <= threshold THEN 1
        ELSE IF /\ right_left_distance <= threshold
                /\ top_distance <= threshold
                /\ bottom_distance <= threshold THEN 0
        ELSE Undefined

\* a faulty variant of Classify that makes the right-neighbour check first
ClassifyRightFirst(other, id, pos, sz, threshold) ==
    LET left_right_distance == Abs((other.position[1] + scaleX(other.size[1])) - pos[1])
        top_distance == Abs(other.position[2] - pos[2])
        bottom_distance == Abs((other.position[2] + scaleY(other.size[2]))
                               - (pos[2] + scaleY(sz[2])))
        right_left_distance == Abs(other.position[1] - (pos[1] + scaleX(sz[1])))
    IN  IF other.id = id THEN Undefined
        ELSE IF other.staged THEN Undefined
        ELSE IF /\ right_left_distance <= threshold
                /\ top_distance <= threshold
                /\ bottom_distance <= threshold THEN 1
        ELSE IF /\ left_right_distance <= threshold
                /\ top_distance <= threshold
                /\ bottom_distance <= threshold THEN 0
        ELSE Undefined

\* the callback of windowsRef.current.map: 0 = left neighbour, 1 = right neighbour,
\* Undefined = not a candidate
Classify(other, id, pos, sz, threshold) ==
    LET left_right_distance == Abs((other.position[1] + scaleX(other.size[1])) - pos[1])
        top_distance == Abs(other.position[2] - pos[2])
        bottom_distance == Abs((other.position[2] + scaleY(other.size[2]))
                               - (pos[2] + scaleY(sz[2])))
        right_left_distance == Abs(other.position[1] - (pos[1] + scaleX(sz[1])))
    IN  IF other.id = id THEN Undefined
        ELSE IF other.staged THEN Undefined
        ELSE IF /\ left_right_distance <= threshold
                /\ top_distance <= threshold
                /\ bottom_distance <= threshold THEN 0
        ELSE IF /\ right_left_distance <= threshold
                /\ top_distance <= threshold
                /\ bottom_distance <= threshold THEN 1
        ELSE Undefined

\* the keys of the Map returned by windowsRef.current.map, in registry order
NearbyWindows(sp, id, pos, sz, threshold) ==
    SelectSeq(sp.windowsRef,
              LAMBDA k : Classify(sp.objs[k], id, pos, sz, threshold) # Undefined)

\* the side effect of the map callback: other.clockPosition = 0 | 1 on each match
MarkClockPositions(sp, id, pos, sz, threshold) ==
    [sp EXCEPT !.objs = [k \in DOMAIN sp.objs |->
        IF RegistryHas(sp, k) /\ Classify(sp.objs[k], id, pos, sz, threshold) # Undefined
        THEN [sp.objs[k] EXCEPT !.clockPosition =
                                  Classify(sp.objs[k], id, pos, sz, threshold)]
        ELSE sp.objs[k]]]

\* ------------------------------------------------------- onWindowBoundsChange
\* snapsRef.current.find(snap => snap.relatedWindows.has(id) && snap.relatedWindows.has(n))
FindSnap(list, id, n) ==
    LET hits == {i \in 1..Len(list) : RelatedHas(list[i], id) /\ RelatedHas(list[i], n)}
    IN  IF hits = {} THEN <<>>
        ELSE <<list[CHOOSE i \in hits : \A j \in hits : i <= j]>>

\* the snapWith test of a bounds-change notification
PolicyPermits(mov, res) ==
    \/ props.snapWith = "all" /\ (mov \/ res)
    \/ props.snapWith = "resize" /\ res
    \/ props.snapWith = "move" /\ mov

\* setToSnap(null); setSnapping(null)
ClearTentative(sp) == [sp EXCEPT !.toSnap = <<>>, !.toSnapNew = FALSE, !.snapping = <<>>]

RECURSIVE DropLostSnaps(_, _, _)
\* for (const existingSnap of existingSnaps): drop it when neither member is nearby
DropLostSnaps(sp, existingSnaps, nearby) ==
    IF existingSnaps = <<>> THEN sp
    ELSE LET e == Head(existingSnaps)
             sp1 == IF e.leftWindow \notin Range(nearby) /\ e.rightWindow \notin Range(nearby)
                    THEN SetSnaps([sp EXCEPT !.snapsRef = WithoutEqual(sp.objs, @, e)])
                    ELSE sp
         IN  DropLostSnaps(sp1, Tail(existingSnaps), nearby)

\* a faulty variant of Superseded that ignores the flags of the Snap's own controls
SupersededAlways(existingSnap) == existingSnap # <<>>

\* existingSnap && !existingSnap.snapMoving && !existingSnap.snapResizing
Superseded(existingSnap) ==
    /\ existingSnap # <<>>
    /\ ~existingSnap[1].snapMoving
    /\ ~existingSnap[1].snapResizing

RECURSIVE FormSnappings(_, _, _, _)
\* for (const nearbyWindow of nearbyWindows.values()): supersede the pair's committed Snap
\* and build the Snapping by clockPosition; `closure` is the snapping the callback closed over
FormSnappings(sp, closure, id, nearby) ==
    IF nearby = <<>> THEN sp
    ELSE IF ~RegistryHas(sp, id)
    THEN SetSnaps([ClearTentative(sp) EXCEPT !.snapsRef = WithoutWindow(@, id)])
    ELSE LET n == Head(nearby)
             existingSnap == FindSnap(sp.snapsRef, id, n)
             sp1 == IF Superseded(existingSnap)
                    THEN SetSnaps([sp EXCEPT !.snapsRef =
                                       WithoutEqual(sp.objs, @, existingSnap[1])])
                    ELSE sp
             cp == sp1.objs[n].clockPosition
             newSnapping == IF cp = 0 THEN Snapping(id, {n, id}, n, id)
                            ELSE Snapping(id, {n, id}, id, n)
             sp2 == IF cp \in {0, 1} /\ ~SnappingEquals(sp1.objs, newSnapping, closure)
                    THEN [sp1 EXCEPT !.snapping = <<newSnapping>>]
                    ELSE sp1
         IN  FormSnappings(sp2, closure, id, Tail(nearby))

\* a faulty variant of Ambiguous that forgets the more-than-two case
AmbiguousOnlyEmpty(nearby) == Len(nearby) = 0

\* nearbyWindows.size == 0 || nearbyWindows.size > 2
Ambiguous(nearby) == Len(nearby) = 0 \/ Len(nearby) > 2

\* Space.onWindowBoundsChange(id, position, size, moving, resizing, staged)
onWindowBoundsChange(sp, closure, id, pos, sz, mov, res, stg) ==
    IF stg THEN ClearTentative(sp)
    ELSE
    LET sp1 == SetSnaps(SpaceWindowsSet(sp, SpaceWindow(id, pos, sz, mov, res, stg)))
        nearby == NearbyWindows(sp1, id, pos, sz, props.snapThreshold)
        sp2 == MarkClockPositions(sp1, id, pos, sz, props.snapThreshold)
        existingSnaps == SelectSeq(sp2.snapsRef, LAMBDA s : RelatedHas(s, id))
        sp3 == DropLostSnaps(sp2, existingSnaps, nearby)
        done == IF Ambiguous(nearby)
                THEN SetSnaps([ClearTentative(sp3) EXCEPT !.snapsRef = WithoutWindow(@, id)])
                ELSE IF ~PolicyPermits(mov, res) THEN sp3
                ELSE FormSnappings(sp3, closure, id, nearby)
    IN  \* observed: the candidates with their edge hints, and what the handler left
        [done EXCEPT !.lastEval =
            <<[id |-> id, nearby |-> nearby,
               hint |-> [k \in Range(nearby) |-> sp2.objs[k].clockPosition],
               snapping |-> done.snapping, toSnap |-> done.toSnap, snaps |-> done.snaps]>>]

\* ------------------------------------------------------ onUserBoundsChangeEnd
\* the snapWith test of an end-of-interaction notification
PolicyEnds(mov, res) ==
    \/ props.snapWith = "all" /\ ~res /\ ~mov
    \/ props.snapWith = "resize" /\ ~res
    \/ props.snapWith = "move" /\ ~mov

\* new ToSnap(target, [leftWindow, rightWindow], newPosition, newSize)
ToSnap(target, windows, newPosition, newSize) ==
    [target |-> target, windows |-> windows, newPosition |-> newPosition,
     newSize |-> newSize]

\* a faulty variant of SnapLayout that forgets the snap margin
SnapLayoutNoMargin(other, sz) ==
    IF other.clockPosition = 0
    THEN [position |-> <<other.position[1] + scaleX(other.size[1]), other.position[2]>>,
          size |-> <<scaleX(sz[1]), scaleY(other.size[2])>>]
    ELSE [position |-> <<other.position[1] - scaleX(sz[1]), other.position[2]>>,
          size |-> <<scaleX(sz[1]), scaleY(other.size[2])>>]

\* the one-shot layout of the released window against its partner `other`
SnapLayout(other, sz) ==
    IF other.clockPosition = 0
    THEN [position |-> <<other.position[1] + scaleX(other.size[1]) + props.snapMargin,
                         other.position[2]>>,
          size |-> <<scaleX(sz[1]), scaleY(other.size[2])>>]
    ELSE [position |-> <<other.position[1] - scaleX(sz[1]) - props.snapMargin,
                         other.position[2]>>,
          size |-> <<scaleX(sz[1]), scaleY(other.size[2])>>]

\* a faulty variant of EndWithoutSnapping that leaves a staged window's Snaps in place
EndWithoutSnappingKeepsSnaps(sp, id, stg) == sp

\* the early return of onUserBoundsChangeEnd when no Snapping is held or the policy does
\* not match: a staged window's committed Snaps are dropped
EndWithoutSnapping(sp, id, stg) ==
    IF stg THEN SetSnaps([sp EXCEPT !.snapsRef = WithoutWindow(@, id)]) ELSE sp

\* Space.onUserBoundsChangeEnd(id, _position, size, moving, resizing, staged)
onUserBoundsChangeEnd(sp, closure, id, sz, mov, res, stg) ==
    LET sp0 == [sp EXCEPT !.snapping = <<>>]
    IN  IF ~(closure # <<>> /\ PolicyEnds(mov, res))
        THEN EndWithoutSnapping(sp0, id, stg)
        ELSE IF ~RegistryHas(sp0, id) THEN sp0
        ELSE
        LET s == closure[1]
            other == IF WindowEquals(sp0.objs, s.leftWindow, id)
                     THEN s.rightWindow ELSE s.leftWindow
            sp1 == SetSnaps([sp0 EXCEPT !.snapsRef = WithoutWindow(@, id)])
            layout == SnapLayout(sp1.objs[other], sz)
        IN  IF stg \/ sp1.objs[other].staged THEN sp1
            ELSE IF sp1.objs[other].clockPosition \notin {0, 1}
            THEN SetSnaps([sp1 EXCEPT !.snapsRef =
                     SelectSeq(@, LAMBDA x : ~RelatedHas(x, id) /\ ~RelatedHas(x, other))])
            ELSE SetSnaps([sp1 EXCEPT
                     !.toSnap = <<ToSnap(s.interactedWindow, <<s.leftWindow, s.rightWindow>>,
                                         layout.position,
                                         <<revertScaleX(layout.size[1]),
                                           revertScaleY(layout.size[2])>>)>>,
                     !.toSnapNew = TRUE,
                     !.snapsRef = Append(@, Snap(s))])

\* ----------------------------------------------------------------- the Space state
\* the Space's refs and state as one value, threaded through a handler's statements
SpaceState ==
    [windowsRef |-> windowsRef, objs |-> objs, snapping |-> snapping, snaps |-> snaps,
     snapsRef |-> snapsRef, toSnap |-> toSnap, toSnapNew |-> FALSE, lastEval |-> <<>>]

\* ------------------------------------------------- the shared controls of a Snap
\* snap.getRelatedWindowsHash(): the sorted member ids, the React key of the Snap's
\* overlay, SnapMover and SnapResizer
SnapKey(e) == e.relatedWindows

\* the keys of the rendered Snaps
RenderedKeys(list) == {SnapKey(list[i]) : i \in 1..Len(list)}

\* the dragging state that survives a render of `list`: a SnapMover or SnapResizer whose
\* Snap is no longer rendered unmounts, and its dragging state goes with it
StillDragging(drag, list) ==
    IF drag # <<>> /\ drag[1].key \in RenderedKeys(list) THEN drag ELSE <<>>

\* is the control `kind` of the Snap with key k the one being dragged
Dragged(drag, kind, k) == drag # <<>> /\ drag[1].kind = kind /\ drag[1].key = k

\* onMoveStart / onMoveEnd and onResizeStart / onResizeEnd of a rendered Snap write
\* snap.snapMoving and snap.snapResizing; the Snap objects of both lists are shared
SnapFlags(list, rendered, drag) ==
    [i \in 1..Len(list) |->
        IF SnapKey(list[i]) \in RenderedKeys(rendered)
        THEN [list[i] EXCEPT !.snapMoving = Dragged(drag, "snapMove", SnapKey(list[i])),
                             !.snapResizing = Dragged(drag, "snapResize", SnapKey(list[i]))]
        ELSE list[i]]

RECURSIVE MemberFlags(_, _, _)
\* the same handlers write window.moving and window.resizing on the member records, one
\* rendered Snap after the other
MemberFlags(o, rendered, drag) ==
    IF rendered = <<>> THEN o
    ELSE LET e == Head(rendered)
             o1 == [k \in DOMAIN o |->
                       IF k \in e.relatedWindows
                       THEN [o[k] EXCEPT !.moving = Dragged(drag, "snapMove", SnapKey(e)),
                                         !.resizing = Dragged(drag, "snapResize", SnapKey(e))]
                       ELSE o[k]]
         IN  MemberFlags(o1, Tail(rendered), drag)

\* a faulty variant of Listens: a listener that handles the events of every target
ListensToAll(kittenId, target) == TRUE

\* the guard of the listeners of Window kittenId: `if (event.target.id !== kittenId) return`
Listens(kittenId, target) == target = kittenId

RECURSIVE WindowSnapMoving(_, _, _)
\* the 'move-start' and 'move-end' events the same handlers dispatch: setSnapMoving in the
\* mounted member Windows
WindowSnapMoving(flags, rendered, drag) ==
    IF rendered = <<>> THEN flags
    ELSE LET e == Head(rendered)
             f1 == [w \in DOMAIN flags |->
                       IF mounted[w] /\ \E t \in e.relatedWindows : Listens(w, t)
                       THEN Dragged(drag, "snapMove", SnapKey(e))
                       ELSE flags[w]]
         IN  WindowSnapMoving(f1, Tail(rendered), drag)

\* the refs and state a handler leaves behind when the controls' dragging state is
\* `dragging`: the start/end effects of the SnapMovers and SnapResizers run in every
\* render of the Space (their callbacks are new functions each time)
BecomesDragging(sp, dragging) ==
    LET drag == StillDragging(dragging, sp.snaps)
    IN  /\ windowsRef' = sp.windowsRef
        /\ objs' = MemberFlags(sp.objs, sp.snaps, drag)
        /\ snapping' = sp.snapping
        /\ snaps' = SnapFlags(sp.snaps, sp.snaps, drag)
        /\ snapsRef' = SnapFlags(sp.snapsRef, sp.snaps, drag)
        /\ toSnap' = sp.toSnap
        /\ lastEval' = sp.lastEval
        /\ snapDrag' = drag
        /\ snapMoving' = WindowSnapMoving(snapMoving, sp.snaps, drag)

\* the refs and state a handler leaves behind
Becomes(sp) == BecomesDragging(sp, snapDrag)

\* the Windows `ids` mount in one commit, in mount order: each TitleBar's dragging effect
\* reports a move end, then the Window's staged effect reports the bounds (tagged moving)
\* and an end of interaction; all callbacks closed over the snapping of that render
RECURSIVE MountWith(_, _, _)
MountWith(sp, closure, ids) ==
    IF ids = <<>> THEN sp
    ELSE LET w == Head(ids)
             sp1 == onUserBoundsChangeEnd(sp, closure, w, InitialSize[w], FALSE, FALSE, FALSE)
             sp2 == onWindowBoundsChange(sp1, closure, w, InitialPosition[w], InitialSize[w],
                                         TRUE, FALSE, FALSE)
             sp3 == onUserBoundsChangeEnd(sp2, closure, w, InitialSize[w], FALSE, FALSE, FALSE)
         IN  MountWith(sp3, closure, Tail(ids))

\* the state of a Space right after its first Windows mounted: snapping = null
MountAll(sp, ids) == MountWith(sp, <<>>, ids)

EmptySpace ==
    [windowsRef |-> <<>>,
     objs |-> [w \in IdSet |-> SpaceWindow(w, <<0, 0>>, <<0, 0>>, FALSE, FALSE, FALSE)],
     snapping |-> <<>>, snaps |-> <<>>, snapsRef |-> <<>>, toSnap |-> <<>>,
     toSnapNew |-> FALSE, lastEval |-> <<>>]

\* ------------------------------------------------- the Space's event dispatcher
\* the event types the Windows listen to
EventTypes == {"move-start", "move-end", "move", "resize"}

\* the most listeners of one type a behaviour lets the dispatcher hold
MaxListeners == 4

\* EventDispatcher.removeListener: the first occurrence of the listener is spliced out
RemoveListener(ls, listener) ==
    IF \E i \in 1..Len(ls) : ls[i] = listener
    THEN LET index == CHOOSE i \in 1..Len(ls) :
                          ls[i] = listener /\ \A j \in 1..(i - 1) : ls[j] # listener
         IN  SubSeq(ls, 1, index - 1) \o SubSeq(ls, index + 1, Len(ls))
    ELSE ls

\* EventDispatcher.setListener: a listener the list holds keeps its place, any other is
\* pushed
SetListener(ls, listener) ==
    IF \E i \in 1..Len(ls) : ls[i] = listener THEN ls ELSE Append(ls, listener)

\* the callback Window w has for events of type t in the render with callback
\* generations gens: moveStartEventCallback and moveEndEventCallback are the same
\* functions in every render, moveEventCallback is a new function whenever the position
\* changed and resizeEventCallback whenever the size changed
Callback(gens, w, t) ==
    [window |-> w, type |-> t,
     gen |-> CASE t = "move" -> gens[w].move
               [] t = "resize" -> gens[w].resize
               [] OTHER -> 0]

\* the listener effect of Window w: removeListener, then setListener, of the callbacks
\* of the render; the effect returns no cleanup
ListenerEffect(ls, gens, w) ==
    [t \in EventTypes |->
        SetListener(RemoveListener(ls[t], Callback(gens, w, t)), Callback(gens, w, t))]

RECURSIVE MountListeners(_, _, _)
\* the listener effects of the Windows that mount in one commit, in mount order
MountListeners(ls, gens, ids) ==
    IF ids = <<>> THEN ls
    ELSE MountListeners(ListenerEffect(ls, gens, Head(ids)), gens, Tail(ids))

\* the state after the Manager, the Space and the Windows of a scenario mounted
StartWith(scenarios, configurations) ==
    /\ env \in scenarios
    /\ props \in configurations
    /\ mounted = [w \in IdSet |-> w \in env.ids]
    /\ position = InitialPosition
    /\ size = InitialSize
    /\ staged = [w \in IdSet |-> FALSE]
    /\ moving = [w \in IdSet |-> FALSE]
    /\ resizing = [w \in IdSet |-> FALSE]
    /\ unmountedWindows = <<>>
    /\ pc = "idle"
    /\ LET sp == MountAll(EmptySpace, SelectSeqBy(Ids, env.ids))
       IN  /\ windowsRef = sp.windowsRef
           /\ objs = sp.objs
           /\ snapping = sp.snapping
           /\ snaps = sp.snaps
           /\ snapsRef = sp.snapsRef
           /\ toSnap = sp.toSnap
           /\ lastEval = <<>>
    /\ lastOp = [op |-> "mount", ids |-> env.ids, arg |-> FALSE, delta |-> <<0, 0>>,
                 snapping |-> <<>>, snaps |-> <<>>, toSnap |-> <<>>,
                 position |-> InitialPosition, size |-> InitialSize]
    /\ applied = <<>>
    /\ snapDrag = <<>>
    /\ snapMoving = [w \in IdSet |-> FALSE]
    /\ focusedWindow = Null
    /\ windowZIndexCounter = InitialZIndexCounter
    /\ alwaysOnTop \in [IdSet -> BOOLEAN]
    /\ \A w \in IdSet : alwaysOnTop[w] => w \in env.pinnable
    /\ focused = [w \in IdSet |-> TRUE]
    /\ zIndex = [w \in IdSet |-> 0]
    /\ prevAlwaysOnTopRef = [w \in IdSet |-> FALSE]
    /\ windowZIndexCounterRef = [w \in IdSet |-> InitialZIndexCounter]
    /\ seen = [w \in IdSet |-> <<>>]
    /\ spaceSeen = <<>>
    /\ focusOp = [op |-> "mount", ids |-> env.ids, windowZIndexCounter |-> InitialZIndexCounter,
                  zIndex |-> zIndex, focusedWindow |-> Null]
    /\ pointer = <<0, 0>>
    /\ lmb = FALSE
    /\ buttons = {}
    /\ staging = [w \in IdSet |-> FALSE]
    /\ moveStartPointerRef = [w \in IdSet |-> <<0, 0>>]
    /\ enteredZone = FALSE
    /\ heap = <<>>
    /\ registry = <<>>
    /\ tentative = <<>>
    /\ committed = <<>>
    /\ registryOp = [op |-> "construct", ids |-> {}, heap |-> <<>>, registry |-> <<>>,
                     tentative |-> <<>>, committed |-> <<>>]
    /\ managerSize = DEFAULT_SIZE
    /\ allowOutside \in [IdSet -> BOOLEAN]
    /\ \A w \in IdSet : ~allowOutside[w] => w \in env.confined
    /\ compensatePositionOnViewportResize \in [IdSet -> BOOLEAN]
    /\ \A w \in IdSet : ~compensatePositionOnViewportResize[w] => w \in env.confined
    /\ prevManagerSize = [w \in IdSet |-> DEFAULT_SIZE]
    /\ prevPositionRef = InitialPosition
    /\ changed = [w \in IdSet |-> {}]
    /\ viewOp = [op |-> "mount", position |-> InitialPosition]
    /\ wheelBusy = FALSE
    /\ space = 0
    /\ scrollX = 0
    /\ timers = <<>>
    /\ bounceTimeoutRef = 0
    /\ wheelOp = [op |-> "mount", arg |-> <<0, 0>>, wheelBusy |-> FALSE, space |-> 0,
                  scrollX |-> 0, timers |-> <<>>, interacting |-> FALSE]
    /\ callbackGen = [w \in IdSet |-> [move |-> 0, resize |-> 0]]
    /\ listeners = MountListeners([t \in EventTypes |-> <<>>], callbackGen,
                                  SelectSeqBy(Ids, env.ids))
    /\ stagedBy = [w \in IdSet |-> "instant"]
    /\ movingStartPosition = InitialPosition
    /\ stageOp = [op |-> "mount", ids |-> env.ids, began |-> InitialPosition,
                  stagedAt |-> InitialPosition, how |-> [w \in IdSet |-> "none"],
                  earlier |-> [w \in IdSet |-> FALSE]]

\* the state after construction under one of the usual configurations
Start(scenarios) == StartWith(scenarios, Configurations)

Init == Start(Scenarios)

\* the record of a step: its name, the windows it is about, its boolean argument, the
\* pointer delta it delivered, and the state it started from
OpDelta(name, ids, arg, delta) ==
    [op |-> name, ids |-> ids, arg |-> arg, delta |-> delta, snapping |-> snapping,
     snaps |-> snaps, toSnap |-> toSnap, position |-> position, size |-> size]

Op(name, ids, arg) == OpDelta(name, ids, arg, <<0, 0>>)

\* no title bar, resizer or shared control of the workspace is being dragged (one pointer)
PointerFree == snapDrag = <<>> /\ \A w \in IdSet : ~moving[w] /\ ~resizing[w]

\* the effects scheduled after a handler: a new ToSnap object makes the toSnap effect
\* run, a null ToSnap makes it return at once, an untouched one leaves it as it was
After(sp) ==
    IF sp.toSnapNew THEN "toSnap"
    ELSE IF sp.toSnap = <<>> THEN "idle"
    ELSE pc

\* the Windows that applied the ToSnap object a handler leaves: none yet when the
\* object is new
AppliedAfter(sp) == IF sp.toSnapNew THEN <<>> ELSE applied

\* ------------------------------------------------------------------ title-bar drag
\* TitleBar.onMouseDown, then the dragging effect: onMoveStartCallback
TitleBarMouseDown(w) ==
    /\ pc = "idle" /\ PointerFree
    /\ lastOp' = Op("mouseDown", {w}, FALSE)
    /\ mounted[w] /\ ~staged[w]
    /\ moving' = [moving EXCEPT ![w] = TRUE]
    /\ UNCHANGED << applied, env, props, windowsRef, objs, snapping, snaps, snapsRef, toSnap,
                    unmountedWindows, mounted, position, size, staged, resizing, pc,
                    snapDrag, snapMoving >>
    /\ lastEval' = <<>>

\* a pointer move while the title bar is dragged: TitleBar.onMove sets the position and
\* the Window's bounds-change effect notifies the Space
TitleBarMove(w, p) ==
    /\ pc = "idle"
    /\ lastOp' = Op("move", {w}, FALSE)
    /\ mounted[w] /\ moving[w]
    /\ p # position[w]
    /\ position' = [position EXCEPT ![w] = p]
    /\ Becomes(onWindowBoundsChange(SpaceState, snapping, w, p, size[w],
                                    moving[w], resizing[w], staged[w]))
    /\ UNCHANGED << applied, env, props, unmountedWindows, mounted, size, staged, moving, resizing, pc >>

\* the button is released: the dragging effect runs onMoveEndCallback
TitleBarMouseUp(w) ==
    /\ pc = "idle"
    /\ lastOp' = Op("moveEnd", {w}, FALSE)
    /\ mounted[w] /\ moving[w]
    /\ moving' = [moving EXCEPT ![w] = FALSE]
    /\ LET sp == onUserBoundsChangeEnd(SpaceState, snapping, w, size[w],
                                       FALSE, resizing[w], staged[w])
       IN  /\ Becomes(sp)
           /\ pc' = After(sp)
           /\ applied' = AppliedAfter(sp)
    /\ UNCHANGED << env, props, unmountedWindows, mounted, position, size, staged, resizing >>

\* ------------------------------------------------------------------ toSnap effect
\* ToSnap.getCurrentAndOthers(kittenId) finds the window among toSnap.windows
GetCurrent(t, kittenId) == kittenId \in Range(t.windows)

\* the Window whose toSnap effect passes its guards for the rendered ToSnap t (<<>> or
\* <<t>>): the mounted target, when it is one of t.windows
ToSnapAppliedBy(t) ==
    IF t = <<>> THEN {}
    ELSE {w \in IdSet : mounted[w] /\ t[1].target = w /\ GetCurrent(t[1], w)}

\* onPositionChange(toSnap.newPosition) and onSizeChange(toSnap.newSize) of the applying
\* Windows, on the controlled position (field 1) or size (field 2) props
ToSnapBounds(t, bounds, field) ==
    [w \in IdSet |-> IF w \in ToSnapAppliedBy(t)
                     THEN (IF field = 1 THEN t[1].newPosition ELSE t[1].newSize)
                     ELSE bounds[w]]

\* the bounds-change effect of the render after a toSnap effect: the applying Window
\* notifies the Space when its position or size changed
ToSnapNotify(sp, t, mov, res, stg) ==
    IF \E w \in ToSnapAppliedBy(t) : t[1].newPosition # position[w] \/ t[1].newSize # size[w]
    THEN LET w == t[1].target
         IN  onWindowBoundsChange(sp, sp.snapping, w, t[1].newPosition, t[1].newSize,
                                  mov[w], res[w], stg[w])
    ELSE sp

\* the toSnap effect of the commit that rendered a new ToSnap: the target Window applies
\* newPosition and newSize; the bounds-change effect of the next render notifies the Space
ToSnapEffect ==
    /\ pc = "toSnap"
    /\ lastOp' = Op("toSnap", {toSnap[1].target}, FALSE)
    /\ pc' = "idle"
    /\ position' = ToSnapBounds(toSnap, position, 1)
    /\ size' = ToSnapBounds(toSnap, size, 2)
    /\ applied' = applied \o SelectSeqBy(Ids, ToSnapAppliedBy(toSnap))
    /\ LET sp == ToSnapNotify(SpaceState, toSnap, moving, resizing, staged)
       IN  Becomes(sp)
    /\ UNCHANGED << env, props, unmountedWindows, mounted, staged, moving, resizing >>

\* ------------------------------------------------------------------- resizer drag
\* the clamping both resize paths of a Window apply: each component raised to minSize
\* if there is one, then lowered to maxSize if there is one
ClampSize(new_size, min, max) ==
    LET raised == IF min # <<>>
                  THEN <<IF new_size[1] < min[1] THEN min[1] ELSE new_size[1],
                         IF new_size[2] < min[2] THEN min[2] ELSE new_size[2]>>
                  ELSE new_size
    IN  IF max # <<>>
        THEN <<IF raised[1] > max[1] THEN max[1] ELSE raised[1],
               IF raised[2] > max[2] THEN max[2] ELSE raised[2]>>
        ELSE raised

\* Window.onResize(size, delta) of window w: the new size clamped by minSize and maxSize
WindowOnResize(w, sz, delta) ==
    ClampSize(<<sz[1] + delta[1], sz[2] + delta[2]>>, minSize[w], maxSize[w])

\* Resizer.onMouseDown, then setResizing(dragging)
ResizerMouseDown(w) ==
    /\ pc = "idle" /\ PointerFree
    /\ lastOp' = Op("resizerDown", {w}, FALSE)
    /\ mounted[w] /\ ~staged[w]
    /\ resizing' = [resizing EXCEPT ![w] = TRUE]
    /\ UNCHANGED << applied, env, props, windowsRef, objs, snapping, snaps, snapsRef, toSnap,
                    unmountedWindows, mounted, position, size, staged, moving, pc,
                    snapDrag, snapMoving >>
    /\ lastEval' = <<>>

\* a pointer move by d while the right resizer is dragged
ResizerMove(w, d) ==
    /\ pc = "idle"
    /\ lastOp' = Op("resize", {w}, FALSE)
    /\ mounted[w] /\ resizing[w]
    /\ LET new_size == WindowOnResize(w, size[w], <<revertScaleX(d), 0>>)
       IN  /\ new_size # size[w]
           /\ new_size[1] <= MaxWidth
           /\ size' = [size EXCEPT ![w] = new_size]
           /\ Becomes(onWindowBoundsChange(SpaceState, snapping, w, position[w], new_size,
                                           moving[w], resizing[w], staged[w]))
    /\ UNCHANGED << applied, env, props, unmountedWindows, mounted, position, staged, moving, resizing, pc >>

\* the button is released: setResizing(false), then onResizeEndCallback
ResizerMouseUp(w) ==
    /\ pc = "idle"
    /\ lastOp' = Op("resizeEnd", {w}, FALSE)
    /\ mounted[w] /\ resizing[w]
    /\ resizing' = [resizing EXCEPT ![w] = FALSE]
    /\ LET sp == onUserBoundsChangeEnd(SpaceState, snapping, w, size[w],
                                       moving[w], FALSE, staged[w])
       IN  /\ Becomes(sp)
           /\ pc' = After(sp)
           /\ applied' = AppliedAfter(sp)
    /\ UNCHANGED << env, props, unmountedWindows, mounted, position, size, staged, moving >>

\* ------------------------------------------------- resizers of the other edges
\* the directions whose Resizer moves the window as well as resizing it
EdgeDirections == { "top", "left", "top-left", "top-right", "bottom-left" }

\* the Resizer's effect on [pointer, dragging, ...] for a pointer delta: the size delta it
\* hands to onResize and the position delta it hands to onMove (none for the right,
\* bottom and bottom-right resizers)
ResizerDelta(direction, delta) ==
    CASE direction = "bottom" ->
             [size |-> <<0, revertScaleX(delta[2])>>, move |-> <<0, 0>>]
      [] direction = "right" ->
             [size |-> <<revertScaleX(delta[1]), 0>>, move |-> <<0, 0>>]
      [] direction = "bottom-right" ->
             [size |-> <<revertScaleX(delta[1]), revertScaleY(delta[2])>>, move |-> <<0, 0>>]
      [] direction = "top" ->
             [size |-> <<0, -revertScaleY(delta[2])>>, move |-> <<0, delta[2]>>]
      [] direction = "left" ->
             [size |-> <<-revertScaleX(delta[1]), 0>>, move |-> <<delta[1], 0>>]
      [] direction = "top-left" ->
             [size |-> <<-revertScaleX(delta[1]), -revertScaleY(delta[2])>>, move |-> delta]
      [] direction = "top-right" ->
             [size |-> <<revertScaleX(delta[1]), -revertScaleY(delta[2])>>,
              move |-> <<0, delta[2]>>]
      [] direction = "bottom-left" ->
             [size |-> <<-revertScaleX(delta[1]), revertScaleY(delta[2])>>,
              move |-> <<delta[1], 0>>]

\* Resizer.onMouseDown of the resizer of window w in the given direction
EdgeResizerMouseDown(w, direction) ==
    /\ pc = "idle" /\ PointerFree
    /\ lastOp' = Op(direction, {w}, FALSE)
    /\ mounted[w] /\ ~staged[w]
    /\ resizing' = [resizing EXCEPT ![w] = TRUE]
    /\ UNCHANGED << applied, env, props, windowsRef, objs, snapping, snaps, snapsRef, toSnap,
                    unmountedWindows, mounted, position, size, staged, moving, pc,
                    snapDrag, snapMoving >>
    /\ lastEval' = <<>>

\* a pointer move by d while that resizer is dragged: onResize with the size of the last
\* render and the size delta, then onMove with the position of the last render shifted
\* by the pointer delta; the bounds-change effect of the next render notifies the Space
EdgeResizerMove(w, direction, d) ==
    /\ pc = "idle"
    /\ lastOp.op = direction /\ lastOp.ids = {w}
    /\ lastOp' = OpDelta(direction, {w}, TRUE, d)
    /\ mounted[w] /\ resizing[w]
    /\ LET r == ResizerDelta(direction, d)
           new_size == WindowOnResize(w, size[w], r.size)
           new_position == <<position[w][1] + r.move[1], position[w][2] + r.move[2]>>
       IN  /\ \A i \in 1..2 : new_position[i] - InitialPosition[w][i] \in -MaxTravel..MaxTravel
           /\ \A i \in 1..2 : new_size[i] <= MaxExtent
           /\ size' = [size EXCEPT ![w] = new_size]
           /\ position' = [position EXCEPT ![w] = new_position]
           /\ Becomes(onWindowBoundsChange(SpaceState, snapping, w, new_position, new_size,
                                           moving[w], resizing[w], staged[w]))
    /\ UNCHANGED << applied, env, props, unmountedWindows, mounted, staged, moving, resizing, pc >>

\* ------------------------------------------------------------------- staged change
\* the staged prop of a Window changes (stage button, unstage click): the window is
\* re-parented, so its TitleBar and Resizers mount anew (the TitleBar's dragging effect
\* reports a move end), then the Window's staged effect runs; every callback closed
\* over the same snapping
StagedChange(w, b) ==
    /\ pc = "idle"
    /\ lastOp' = Op("staged", {w}, b)
    /\ mounted[w] /\ staged[w] # b
    /\ staged' = [staged EXCEPT ![w] = b]
    /\ moving' = [moving EXCEPT ![w] = FALSE]
    /\ resizing' = [resizing EXCEPT ![w] = FALSE]
    /\ LET sp1 == onUserBoundsChangeEnd(SpaceState, snapping, w, size[w],
                                        FALSE, resizing[w], b)
           sp2 == onWindowBoundsChange(sp1, snapping, w, position[w], size[w],
                                       TRUE, resizing[w], b)
           sp3 == onUserBoundsChangeEnd(sp2, snapping, w, size[w], FALSE, resizing[w], b)
       IN  /\ Becomes(sp3)
           /\ pc' = After(sp3)
           /\ applied' = AppliedAfter(sp3)
    /\ UNCHANGED << env, props, unmountedWindows, mounted, position, size >>

\* ------------------------------------------- drags of a Snap's mover and resizer
\* a faulty variant of moveEventCallback that drops the vertical part of the delta
moveEventCallbackHorizontal(pos, positionDelta) == <<pos[1] + positionDelta[1], pos[2]>>

\* Window.moveEventCallback: the position the listener hands to onPositionChange.  The
\* listeners a Window registered in earlier renders stay registered and run first, with
\* the position they closed over; the one registered last closed over the rendered
\* position, and its call of onPositionChange is the one that takes effect
moveEventCallback(pos, positionDelta) ==
    <<pos[1] + positionDelta[1], pos[2] + positionDelta[2]>>

\* a faulty variant of resizeEventCallback that ignores minSize
resizeEventCallbackUnbounded(w, sz, sizeDelta) ==
    <<sz[1] + sizeDelta[1], sz[2] + sizeDelta[2]>>

\* Window.resizeEventCallback of window w: the size the listener hands to onSizeChange,
\* clamped by minSize and maxSize
resizeEventCallback(w, sz, sizeDelta) ==
    ClampSize(<<sz[1] + sizeDelta[1], sz[2] + sizeDelta[2]>>, minSize[w], maxSize[w])

\* the first rendered Snap with key k: the `snap` the control's callbacks closed over
RenderedSnap(k) == snaps[CHOOSE i \in 1..Len(snaps) :
                            /\ SnapKey(snaps[i]) = k
                            /\ \A j \in 1..Len(snaps) : SnapKey(snaps[j]) = k => i <= j]

RECURSIVE NotifyAll(_, _, _, _)
\* the bounds-change effects of the render after a dispatch, in mount order: each Window
\* whose position or size changed notifies the Space; all closed over the same snapping
NotifyAll(sp, ws, pos, sz) ==
    IF ws = <<>> THEN sp
    ELSE LET w == Head(ws)
             sp1 == IF pos[w] # position[w] \/ sz[w] # size[w]
                    THEN onWindowBoundsChange(sp, snapping, w, pos[w], sz[w],
                                              moving[w], resizing[w], staged[w])
                    ELSE sp
         IN  NotifyAll(sp1, Tail(ws), pos, sz)

\* SnapMover.onMouseDown / SnapResizer.onMouseDown on the control of the Snap with key
\* k, then the start effect: onMoveStart / onResizeStart
SnapControlMouseDown(kind, k) ==
    /\ pc = "idle" /\ PointerFree
    /\ lastOp' = Op(kind \o "Start", k, FALSE)
    /\ env.snapControls
    /\ k \in RenderedKeys(snaps)
    /\ BecomesDragging(SpaceState, <<[kind |-> kind, key |-> k]>>)
    /\ UNCHANGED << applied, env, props, unmountedWindows, mounted, position, size, staged,
                    moving, resizing, pc >>

\* the button is released: setDragging(false), then the end effect: onMoveEnd /
\* onResizeEnd
SnapControlMouseUp(kind) ==
    /\ pc = "idle"
    /\ snapDrag # <<>> /\ snapDrag[1].kind = kind
    /\ lastOp' = Op(kind \o "End", snapDrag[1].key, FALSE)
    /\ BecomesDragging(SpaceState, <<>>)
    /\ UNCHANGED << applied, env, props, unmountedWindows, mounted, position, size, staged,
                    moving, resizing, pc >>

SnapMoverMouseDown(k) == SnapControlMouseDown("snapMove", k)

SnapMoverMouseUp == SnapControlMouseUp("snapMove")

SnapResizerMouseDown(k) == SnapControlMouseDown("snapResize", k)

SnapResizerMouseUp == SnapControlMouseUp("snapResize")

\* a pointer move by positionDelta while a SnapMover is dragged: onMove dispatches a
\* 'move' event to every member; the listener of each mounted member sets its position
SnapMoverMove(positionDelta) ==
    /\ pc = "idle"
    /\ snapDrag # <<>> /\ snapDrag[1].kind = "snapMove"
    /\ lastOp' = OpDelta("snapMove", snapDrag[1].key, FALSE, positionDelta)
    /\ LET snap == RenderedSnap(snapDrag[1].key)
           pos == [w \in IdSet |->
                     IF mounted[w] /\ \E t \in snap.relatedWindows : Listens(w, t)
                     THEN moveEventCallback(position[w], positionDelta)
                     ELSE position[w]]
           sp == NotifyAll(SpaceState, Ids, pos, size)
       IN  /\ pos[snap.leftWindow][1] \in MinLeft..MaxLeft
           /\ position' = pos
           /\ Becomes(sp)
           /\ pc' = After(sp)
           /\ applied' = AppliedAfter(sp)
    /\ UNCHANGED << env, props, unmountedWindows, mounted, size, staged, moving, resizing >>

\* a pointer move by (dx, dy) while a SnapResizer is dragged: onResize dispatches
\* 'resize' to the left member, 'resize' to the right member and 'move' to the right
\* member
SnapResizerMove(sizeDelta) ==
    /\ pc = "idle"
    /\ snapDrag # <<>> /\ snapDrag[1].kind = "snapResize"
    /\ lastOp' = OpDelta("snapResize", snapDrag[1].key, FALSE, sizeDelta)
    /\ LET snap == RenderedSnap(snapDrag[1].key)
           sz == [w \in IdSet |->
                    IF mounted[w] /\ Listens(w, snap.leftWindow)
                    THEN resizeEventCallback(w, size[w], <<revertScaleX(sizeDelta[1]), 0>>)
                    ELSE IF mounted[w] /\ Listens(w, snap.rightWindow)
                    THEN resizeEventCallback(w, size[w], <<-revertScaleX(sizeDelta[1]), 0>>)
                    ELSE size[w]]
           pos == [w \in IdSet |->
                     IF mounted[w] /\ Listens(w, snap.rightWindow)
                     THEN moveEventCallback(position[w], <<sizeDelta[1], 0>>)
                     ELSE position[w]]
           sp == NotifyAll(SpaceState, Ids, pos, sz)
       IN  /\ \A w \in snap.relatedWindows : sz[w][1] <= MaxSnapWidth
           /\ position' = pos
           /\ size' = sz
           /\ Becomes(sp)
           /\ pc' = After(sp)
           /\ applied' = AppliedAfter(sp)
    /\ UNCHANGED << env, props, unmountedWindows, mounted, staged, moving, resizing >>

\* ------------------------------------------------------------- unmount and reap
\* spaceUnmountedWindowsRef.current: the queue as it was when the Window mounted
spaceUnmountedWindowsRef(w) == <<>>

\* Window.onUnmount: setUnmountedWindows([...spaceUnmountedWindowsRef.current, kittenId])
onUnmount(queue, w) == Append(spaceUnmountedWindowsRef(w), w)

RECURSIVE UnmountAll(_, _)
\* the cleanups of the Windows that unmount in one commit, in mount order
UnmountAll(queue, ids) ==
    IF ids = <<>> THEN queue
    ELSE UnmountAll(onUnmount(queue, Head(ids)), Tail(ids))

\* the Windows in `gone` unmount in the same update cycle
Unmount(gone) ==
    /\ pc = "idle"
    /\ lastOp' = Op("unmount", gone, FALSE)
    /\ gone # {} /\ \A w \in gone : mounted[w]
    /\ mounted' = [w \in IdSet |-> mounted[w] /\ w \notin gone]
    /\ moving' = [w \in IdSet |-> moving[w] /\ w \notin gone]
    /\ resizing' = [w \in IdSet |-> resizing[w] /\ w \notin gone]
    /\ unmountedWindows' = UnmountAll(unmountedWindows, SelectSeqBy(Ids, gone))
    /\ pc' = "reap"
    /\ lastEval' = <<>>
    /\ snapMoving' = [w \in IdSet |-> snapMoving[w] /\ w \notin gone]
    /\ UNCHANGED << applied, env, props, windowsRef, objs, snapping, snaps, snapsRef, toSnap,
                    position, size, staged, snapDrag >>

\* the Space's effect on [unmountedWindows]
Reap ==
    /\ pc = "reap"
    /\ lastOp' = Op("reap", lastOp.ids, FALSE)
    /\ IF Len(unmountedWindows) = 0
       THEN UNCHANGED << snaps, windowsRef, unmountedWindows >>
       ELSE /\ snaps' = SelectSeq(snapsRef, LAMBDA s :
                            ~(\E id \in Range(unmountedWindows) : RelatedHas(s, id)))
            /\ windowsRef' = SpaceWindowsFilter(SpaceState,
                                 IdSet \ Range(unmountedWindows)).windowsRef
            /\ unmountedWindows' = <<>>
    /\ snapDrag' = StillDragging(snapDrag, snaps')
    /\ pc' = "sync"
    /\ lastEval' = <<>>
    /\ UNCHANGED << applied, env, props, objs, snapping, snapsRef, toSnap, mounted, position, size,
                    staged, moving, resizing, snapMoving >>

\* the Space's effect on [snaps]: snapsRef.current = snaps
SyncSnapsRef ==
    /\ pc = "sync"
    /\ lastOp' = Op("sync", {}, FALSE)
    /\ snapsRef' = snaps
    /\ pc' = "idle"
    /\ lastEval' = <<>>
    /\ UNCHANGED << applied, env, props, windowsRef, objs, snapping, snaps, toSnap, unmountedWindows,
                    mounted, position, size, staged, moving, resizing, snapDrag, snapMoving >>

\* ------------------------------------------------------------- focus and z-index
\* the values of the dependencies of Window w's focus effects in the current render
WindowDeps(w) ==
    [focused |-> focused[w], focusedWindow |-> focusedWindow, zIndex |-> zIndex[w],
     alwaysOnTop |-> alwaysOnTop[w], windowZIndexCounter |-> windowZIndexCounter]

\* the values of the dependencies of the Space's focus effect in the current render
SpaceDeps == [focusedWindow |-> focusedWindow, windowZIndexCounter |-> windowZIndexCounter]

\* every effect has run with the rendered values: nothing is left to flush
Settled ==
    /\ \A w \in IdSet : mounted[w] => seen[w] = <<WindowDeps(w)>>
    /\ spaceSeen = <<SpaceDeps>>

\* the state updates queued while the effects of one commit run; a later set of the
\* same state replaces an earlier one
Queue ==
    [focusedWindow |-> focusedWindow, windowZIndexCounter |-> windowZIndexCounter,
     focused |-> focused, zIndex |-> zIndex, prevAlwaysOnTopRef |-> prevAlwaysOnTopRef,
     windowZIndexCounterRef |-> windowZIndexCounterRef]

\* a faulty variant of IsFocusedWindow that takes every window for the focused one
IsFocusedWindowAlways(w) == TRUE

\* focusedWindow === kittenId
IsFocusedWindow(w) == focusedWindow = w

\* a faulty variant of ZIndexEffectReturns that lets every window pass the guards
ZIndexEffectNeverReturns(w) == FALSE

\* the guards of the z-index effect of Window w: it returns early when alwaysOnTop did
\* not change and the window is not focused, is not the focused window, or already has
\* the z-index of the counter its ref holds
ZIndexEffectReturns(w) ==
    /\ alwaysOnTop[w] = prevAlwaysOnTopRef[w]
    /\ \/ ~focused[w]
       \/ ~IsFocusedWindow(w)
       \/ zIndex[w] = windowZIndexCounterRef[w]
       \/ zIndex[w] = windowZIndexCounterRef[w] + ALWAYS_ON_TOP_Z_INDEX

\* a faulty variant of NewCounter that hands out the counter the ref holds
NewCounterStuck(w) == windowZIndexCounterRef[w]

\* const newCounter = windowZIndexCounterRef.current + 1
NewCounter(w) == windowZIndexCounterRef[w] + 1

\* the z-index Window w is rendered with
RenderedZIndex(w) == zIndex[w] + (IF snapMoving[w] THEN 10000 ELSE 0)

RECURSIVE WindowEffects(_, _)
\* the focus effects of the Windows ws of one commit, in mount order and, per Window,
\* in the order they are declared; each runs when one of its dependencies changed since
\* it last ran, with the values of the render it belongs to
WindowEffects(q, ws) ==
    IF ws = <<>> THEN q
    ELSE LET w == Head(ws)
             first == seen[w] = <<>>
             was == IF first THEN WindowDeps(w) ELSE seen[w][1]
             \* focused && setFocusedWindow(kittenId)
             q1 == IF (first \/ was.focused # focused[w]) /\ focused[w]
                   THEN [q EXCEPT !.focusedWindow = w]
                   ELSE q
             \* focusedWindow === kittenId ? setFocused(true): setFocused(false)
             q2 == IF first \/ was.focusedWindow # focusedWindow
                   THEN [q1 EXCEPT !.focused[w] = IsFocusedWindow(w)]
                   ELSE q1
             \* the z-index effect
             q3 == IF /\ \/ first
                         \/ was.focused # focused[w]
                         \/ was.focusedWindow # focusedWindow
                         \/ was.zIndex # zIndex[w]
                         \/ was.alwaysOnTop # alwaysOnTop[w]
                      /\ ~ZIndexEffectReturns(w)
                   THEN [q2 EXCEPT
                           !.prevAlwaysOnTopRef[w] = alwaysOnTop[w],
                           !.zIndex[w] = NewCounter(w) +
                               (IF alwaysOnTop[w] THEN ALWAYS_ON_TOP_Z_INDEX ELSE 0),
                           !.windowZIndexCounter = NewCounter(w)]
                   ELSE q2
             \* windowZIndexCounterRef.current = windowZIndexCounter
             q4 == IF first \/ was.windowZIndexCounter # windowZIndexCounter
                   THEN [q3 EXCEPT !.windowZIndexCounterRef[w] = windowZIndexCounter]
                   ELSE q3
         IN  WindowEffects(q4, Tail(ws))

\* the Space's effect on [focusedWindow, windowZIndexCounter]: the first Snap of
\* snapsRef.current that has the focused window gets the counter as its zIndex and
\* moves to the end of the list, and the list is committed
SpaceFocusEffect(sp) ==
    LET hits == {i \in 1..Len(sp.snapsRef) : RelatedHas(sp.snapsRef[i], focusedWindow)}
    IN  IF focusedWindow = Null \/ hits = {} THEN sp
        ELSE LET i == CHOOSE j \in hits : \A k \in hits : j <= k
                 snap == [sp.snapsRef[i] EXCEPT !.zIndex = windowZIndexCounter]
             IN  SetSnaps([sp EXCEPT !.snapsRef =
                              Append(WithoutEqual(sp.objs, @, snap), snap)])

\* one commit: the effects of the Windows, then those of the Space, run with the
\* rendered values, and the state they set is what the next render shows
Commit ==
    /\ ~Settled
    /\ LET q == WindowEffects(Queue, SelectSeqBy(Ids, {w \in IdSet : mounted[w]}))
           here == [SpaceState EXCEPT !.lastEval = lastEval]
           sp == IF spaceSeen # <<SpaceDeps>> THEN SpaceFocusEffect(here) ELSE here
       IN  /\ focusedWindow' = q.focusedWindow
           /\ windowZIndexCounter' = q.windowZIndexCounter
           /\ focused' = q.focused
           /\ zIndex' = q.zIndex
           /\ prevAlwaysOnTopRef' = q.prevAlwaysOnTopRef
           /\ windowZIndexCounterRef' = q.windowZIndexCounterRef
           /\ Becomes(sp)
    /\ seen' = [w \in IdSet |-> IF mounted[w] THEN <<WindowDeps(w)>> ELSE <<>>]
    /\ spaceSeen' = <<SpaceDeps>>
    /\ UNCHANGED << env, props, unmountedWindows, mounted, position, size, staged, moving,
                    resizing, pc, lastOp, applied, alwaysOnTop, focusOp >>

\* the record of a focus event: its name, the windows it is about, and the counter,
\* z-indexes and focused window it started from
FocusOp(name, ids) ==
    [op |-> name, ids |-> ids, windowZIndexCounter |-> windowZIndexCounter,
     zIndex |-> zIndex, focusedWindow |-> focusedWindow]

\* the environment acts between update cycles, while the counter is within its bound
Quiet == Settled /\ pc = "idle" /\ windowZIndexCounter < MaxCounter

\* setFocused(true) of Window w: a press on its title bar or a click on its content
SetFocused(w) ==
    /\ focused' = [focused EXCEPT ![w] = TRUE]
    /\ focusOp' = FocusOp("focus", {w})
    /\ UNCHANGED << focusedWindow, windowZIndexCounter, alwaysOnTop, zIndex,
                    prevAlwaysOnTopRef, windowZIndexCounterRef, seen, spaceSeen >>

\* a click on the content of Window w: onClick={() => setFocused(true)}
ContentClick(w) ==
    /\ Quiet /\ PointerFree
    /\ mounted[w] /\ ~staged[w]
    /\ SetFocused(w)
    /\ UNCHANGED << env, props, windowsRef, objs, snapping, snaps, snapsRef, toSnap,
                    unmountedWindows, mounted, position, size, staged, moving, resizing,
                    pc, lastEval, lastOp, snapDrag, snapMoving, applied >>

\* TitleBar.onMouseDown: setFocused(true) and setDragging(true)
FocusTitleBarMouseDown(w) == Quiet /\ TitleBarMouseDown(w) /\ SetFocused(w)

\* the host flips the alwaysOnTop prop of the Windows ws in one update
ToggleAlwaysOnTop(ws) ==
    /\ Quiet
    /\ ws # {} /\ \A w \in ws : mounted[w]
    /\ alwaysOnTop' = [w \in IdSet |-> IF w \in ws THEN ~alwaysOnTop[w] ELSE alwaysOnTop[w]]
    /\ focusOp' = FocusOp("toggle", ws)
    /\ UNCHANGED << env, props, windowsRef, objs, snapping, snaps, snapsRef, toSnap,
                    unmountedWindows, mounted, position, size, staged, moving, resizing,
                    pc, lastEval, lastOp, snapDrag, snapMoving, applied, focusedWindow,
                    windowZIndexCounter, focused, zIndex, prevAlwaysOnTopRef,
                    windowZIndexCounterRef, seen, spaceSeen >>

\* Window w mounts after the others: its state and refs are initialised in its first
\* render and its effects have not run yet; the TitleBar's dragging effect and the
\* staged effect report to the Space as they do for the first Windows
MountWindow(w) ==
    /\ Quiet /\ PointerFree
    /\ ~mounted[w]
    /\ lastOp' = Op("mount", {w}, FALSE)
    /\ mounted' = [mounted EXCEPT ![w] = TRUE]
    /\ LET sp == MountWith(SpaceState, snapping, <<w>>)
       IN  /\ Becomes(sp)
           /\ pc' = After(sp)
           /\ applied' = AppliedAfter(sp)
    /\ focused' = [focused EXCEPT ![w] = TRUE]
    /\ zIndex' = [zIndex EXCEPT ![w] = 0]
    /\ prevAlwaysOnTopRef' = [prevAlwaysOnTopRef EXCEPT ![w] = FALSE]
    /\ windowZIndexCounterRef' = [windowZIndexCounterRef EXCEPT ![w] = windowZIndexCounter]
    /\ seen' = [seen EXCEPT ![w] = <<>>]
    /\ focusOp' = FocusOp("mount", {w})
    /\ UNCHANGED << env, props, unmountedWindows, position, size, staged, moving, resizing,
                    focusedWindow, windowZIndexCounter, alwaysOnTop, spaceSeen >>

\* the Windows in `gone` unmount: their state and refs go with them
FocusUnmount(gone) ==
    /\ Quiet
    /\ Unmount(gone)
    /\ seen' = [w \in IdSet |-> IF w \in gone THEN <<>> ELSE seen[w]]
    /\ focusOp' = FocusOp("unmount", gone)
    /\ UNCHANGED << focusedWindow, windowZIndexCounter, alwaysOnTop, focused, zIndex,
                    prevAlwaysOnTopRef, windowZIndexCounterRef, spaceSeen >>

\* ------------------------------------------- a click that closes another window
\* a click on the content of Window w whose handler makes the host unmount the Windows
\* in `gone`: setFocused(true) and the host's update are one batch, and the cleanups of
\* the unmounted Windows run in the commit of its render
ClickClose(w, gone) ==
    /\ Quiet /\ PointerFree
    /\ mounted[w] /\ ~staged[w] /\ w \notin gone
    /\ Unmount(gone)
    /\ focused' = [focused EXCEPT ![w] = TRUE]
    /\ seen' = [x \in IdSet |-> IF x \in gone THEN <<>> ELSE seen[x]]
    /\ focusOp' = FocusOp("clickClose", {w})
    /\ UNCHANGED << focusedWindow, windowZIndexCounter, alwaysOnTop, zIndex,
                    prevAlwaysOnTopRef, windowZIndexCounterRef, spaceSeen >>

\* the focus effects of the render that unmounted the Windows have not run yet: that
\* commit comes before the one in which the Space sees the unmounted ids
FirstCommitPending ==
    \E w \in IdSet : mounted[w] /\ seen[w] # <<>> /\ seen[w][1].focused # focused[w]

\* the Space's effect on [unmountedWindows] applied to sp: setSnaps of the filtered
\* snapsRef.current (the ref itself is left as it is) and windowsRef.current filtered
Reaped(sp) ==
    IF Len(unmountedWindows) = 0 THEN sp
    ELSE [SpaceWindowsFilter(sp, IdSet \ Range(unmountedWindows)) EXCEPT
             !.snaps = SelectSeq(sp.snapsRef, LAMBDA x :
                           ~(\E id \in Range(unmountedWindows) : RelatedHas(x, id)))]

\* the commit of the render that shows the unmounted ids: the effects of the Windows,
\* then those of the Space in the order they are declared, the effect on
\* [unmountedWindows] before the one on [focusedWindow, windowZIndexCounter]; of their
\* setSnaps calls the last one decides the next render
ReapCommit ==
    /\ pc = "reap" /\ ~FirstCommitPending
    /\ lastOp' = Op("reap", lastOp.ids, spaceSeen # <<SpaceDeps>>)
    /\ LET q == WindowEffects(Queue, SelectSeqBy(Ids, {w \in IdSet : mounted[w]}))
           here == [SpaceState EXCEPT !.lastEval = <<>>]
           sp == IF spaceSeen # <<SpaceDeps>>
                 THEN SpaceFocusEffect(Reaped(here)) ELSE Reaped(here)
       IN  /\ focusedWindow' = q.focusedWindow
           /\ windowZIndexCounter' = q.windowZIndexCounter
           /\ focused' = q.focused
           /\ zIndex' = q.zIndex
           /\ prevAlwaysOnTopRef' = q.prevAlwaysOnTopRef
           /\ windowZIndexCounterRef' = q.windowZIndexCounterRef
           /\ Becomes(sp)
    /\ unmountedWindows' = <<>>
    /\ pc' = "sync"
    /\ seen' = [w \in IdSet |-> IF mounted[w] THEN <<WindowDeps(w)>> ELSE <<>>]
    /\ spaceSeen' = <<SpaceDeps>>
    /\ UNCHANGED << env, props, mounted, position, size, staged, moving, resizing,
                    applied, alwaysOnTop, focusOp >>

\* ------------------------------------------------- title-bar drag and the staging zone
\* the staging effect of a Window: setStaging(moving && pointer[0] < scaleX(stagingDistance))
Staging(mov, ptr) == mov /\ ptr[1] < scaleX(DEFAULT_STAGING_DISTANCE)

\* the render in which a Window's staged prop became true after its staging commit
\* effect called onStagedChange(true): the window is re-parented, its new TitleBar's
\* dragging effect reports a move end, then the staged effect runs; every callback is
\* closed over the snapping of that render
StagedByMove(sp, w) ==
    LET sp1 == onUserBoundsChangeEnd(sp, sp.snapping, w, size[w], FALSE, resizing[w], TRUE)
        sp2 == onWindowBoundsChange(sp1, sp.snapping, w, position[w], size[w],
                                    TRUE, resizing[w], TRUE)
    IN  onUserBoundsChangeEnd(sp2, sp.snapping, w, size[w], FALSE, resizing[w], TRUE)

\* a button b goes down on the title bar of w, g from its corner: TitleBar.onMouseDown
\* (setDragging(true), the grab offset), Space.onMouseDown (setLmb(true)), then the
\* dragging effect (onMoveStartCallback) and the staging effect; the pointer came there
\* by Manager.onMouseMove
TitleBarPress(w, b, g) ==
    /\ buttons = {}
    /\ TitleBarMouseDown(w)
    /\ buttons' = {b}
    /\ lmb' = TRUE
    /\ pointer' = <<position[w][1] + g[1], position[w][2] + g[2]>>
    /\ moveStartPointerRef' = [moveStartPointerRef EXCEPT ![w] = g]
    /\ staging' = [staging EXCEPT ![w] = Staging(TRUE, pointer')]
    /\ enteredZone' = staging'[w]

\* the pointer moves to q while the title bar of w is dragged: Manager.onMouseMove
\* (setPointer), the TitleBar's setMovingPosition(pointer - moveStartPointerRef.current)
\* and onMove, then the staging effect
TitleBarDrag(w, q) ==
    /\ q # pointer
    /\ TitleBarMove(w, <<q[1] - moveStartPointerRef[w][1], q[2] - moveStartPointerRef[w][2]>>)
    /\ pointer' = q
    /\ staging' = [staging EXCEPT ![w] = Staging(moving[w], q)]
    /\ enteredZone' = (enteredZone \/ staging'[w])
    /\ UNCHANGED << lmb, buttons, moveStartPointerRef >>

\* the button b goes up: TitleBar.onMouseUp (setDragging(false)) and Space.onMouseUp
\* (setLmb(false)); in the render that follows the dragging effect runs
\* onMoveEndCallback and the staging commit effect, when staging is true, runs
\* setStaging(false) and onStagedChange(true), whose render runs the staged effects
TitleBarRelease(w, b) ==
    /\ pc = "idle"
    /\ buttons = {b}
    /\ mounted[w] /\ moving[w]
    /\ lastOp' = Op("release", {w}, staging[w])
    /\ buttons' = {}
    /\ lmb' = FALSE
    /\ moving' = [moving EXCEPT ![w] = FALSE]
    /\ staging' = [staging EXCEPT ![w] = FALSE]
    /\ LET end == onUserBoundsChangeEnd(SpaceState, snapping, w, size[w],
                                        FALSE, resizing[w], staged[w])
           sp == IF staging[w] THEN StagedByMove(end, w) ELSE end
       IN  /\ Becomes(sp)
           /\ pc' = After(sp)
           /\ applied' = AppliedAfter(sp)
    /\ staged' = [staged EXCEPT ![w] = staged[w] \/ staging[w]]
    /\ resizing' = [resizing EXCEPT ![w] = resizing[w] /\ ~staging[w]]
    /\ UNCHANGED << env, props, unmountedWindows, mounted, position, size, pointer,
                    moveStartPointerRef, enteredZone >>

\* ---------------------------------------------------- staging and unstaging a window
\* the places a drag takes the pointer to in such a workspace: those of the staging zone
\* and the place that puts B next to A
UnstagePoints == PointerPoints \cup { <<315, 110>> }

\* a faulty variant of MovingStart that follows the window while it moves
MovingStartFollows(mov, prevMov, pos, start) == IF mov THEN pos ELSE start

\* the effect on [moving, prevMoving, position]: setMovingStartPosition(position) in the
\* render in which the window began to move
MovingStart(mov, prevMov, pos, start) == IF mov /\ ~prevMov THEN pos ELSE start

\* the position after the click on a staged window: onPositionChange(movingStartPosition)
\* when stagedBy is 'move'
UnstagePosition(by, start, pos) == IF by = "move" THEN start ELSE pos

\* the observation of a step of staging
StageOp(name, w) == [stageOp EXCEPT !.op = name, !.ids = {w}]

\* the title bar of w is pressed, with the effect that remembers where the move started
StagePress(w, b, g) ==
    /\ TitleBarPress(w, b, g)
    /\ movingStartPosition' = [movingStartPosition EXCEPT
                                  ![w] = MovingStart(TRUE, moving[w], position[w], @)]
    /\ stageOp' = [StageOp("press", w) EXCEPT !.began[w] = position[w]]
    /\ UNCHANGED stagedBy

\* the pointer moves while the title bar of w is dragged: the window is moving and was
\* moving in the previous render
StageDrag(w, q) ==
    /\ TitleBarDrag(w, q)
    /\ movingStartPosition' = [movingStartPosition EXCEPT
                                  ![w] = MovingStart(TRUE, moving[w], position'[w], @)]
    /\ stageOp' = StageOp("drag", w)
    /\ UNCHANGED stagedBy

\* the button goes up: when staging is true the staging commit effect runs
\* setStagedBy('move') before onStagedChange(true)
StageRelease(w, b) ==
    /\ TitleBarRelease(w, b)
    /\ stagedBy' = [stagedBy EXCEPT ![w] = IF staging[w] THEN "move" ELSE @]
    /\ stageOp' = IF staging[w]
                     THEN [StageOp("release", w) EXCEPT !.stagedAt[w] = position[w],
                                                        !.how[w] = "drag",
                                                        !.earlier[w] = TRUE]
                     ELSE StageOp("release", w)
    /\ UNCHANGED movingStartPosition

\* the stage button of w is clicked: the host sets the staged prop
StageButton(w) ==
    /\ buttons = {} /\ PointerFree
    /\ StagedChange(w, TRUE)
    /\ stageOp' = [StageOp("stage", w) EXCEPT !.stagedAt[w] = position[w],
                                              !.how[w] = "button"]
    /\ UNCHANGED << stagedBy, movingStartPosition, snapDrag, snapMoving >>

\* the staged window w is clicked: onStagedChange(false) and, when stagedBy is 'move',
\* onPositionChange(movingStartPosition); in the render that follows the new TitleBar's
\* dragging effect reports a move end, the Window's effect on [staged] sets stagedBy to
\* 'instant', its staged effect notifies the Space, and its bounds-change effect
\* notifies it when the position changed; every callback closed over the same snapping
UnstageClick(w) ==
    /\ pc = "idle"
    /\ buttons = {} /\ PointerFree
    /\ mounted[w] /\ staged[w]
    /\ lastOp' = Op("staged", {w}, FALSE)
    /\ staged' = [staged EXCEPT ![w] = FALSE]
    /\ moving' = [moving EXCEPT ![w] = FALSE]
    /\ resizing' = [resizing EXCEPT ![w] = FALSE]
    /\ LET p == UnstagePosition(stagedBy[w], movingStartPosition[w], position[w])
           sp1 == onUserBoundsChangeEnd(SpaceState, snapping, w, size[w],
                                        FALSE, resizing[w], FALSE)
           sp2 == onWindowBoundsChange(sp1, snapping, w, p, size[w],
                                       TRUE, resizing[w], FALSE)
           sp3 == onUserBoundsChangeEnd(sp2, snapping, w, size[w], FALSE, resizing[w], FALSE)
           sp4 == IF p # position[w]
                  THEN onWindowBoundsChange(sp3, snapping, w, p, size[w],
                                            FALSE, FALSE, FALSE)
                  ELSE sp3
       IN  /\ position' = [position EXCEPT ![w] = p]
           /\ Becomes(sp4)
           /\ pc' = After(sp4)
           /\ applied' = AppliedAfter(sp4)
    /\ stagedBy' = [stagedBy EXCEPT ![w] = "instant"]
    /\ stageOp' = StageOp("unstage", w)
    /\ UNCHANGED << env, props, unmountedWindows, mounted, size, movingStartPosition,
                    snapDrag, snapMoving >>

\* ------------------------------------------- the registry and its references, by object
\* The same handlers with every SpaceWindow object told apart by its address: the
\* registry Map holds addresses, and a Snapping or Snap holds the addresses it was built
\* with.  `rg` is the object-level state threaded through a handler.
RegistryState ==
    [heap |-> heap, registry |-> registry, tentative |-> tentative,
     committed |-> committed]

\* the most SpaceWindow objects a behaviour inserts into the registry
MaxObjects == 4

\* SpaceWindows.get(id): the address of the record with key id, 0 for undefined
Get(rg, id) ==
    LET hits == {i \in 1..Len(rg.registry) : rg.heap[rg.registry[i]].id = id}
    IN  IF hits = {} THEN 0 ELSE rg.registry[CHOOSE i \in hits : TRUE]

\* SpaceWindows.set(window), window a new object: inserted under its id if the key is
\* absent, otherwise the existing object takes its position, size and clockPosition
SpaceWindowsSetObject(rg, w) ==
    LET existing == Get(rg, w.id)
    IN  IF existing = 0
        THEN [rg EXCEPT !.heap = Append(@, w), !.registry = Append(@, Len(rg.heap) + 1)]
        ELSE [rg EXCEPT !.heap[existing].position = w.position,
                        !.heap[existing].size = w.size,
                        !.heap[existing].clockPosition = w.clockPosition]

\* SpaceWindows.filter(fn), fn a test of the id: a new Map that holds the objects that
\* pass, in the same order (each is set under a key that is absent)
SpaceWindowsFilterObjects(rg, keep) ==
    [rg EXCEPT !.registry = SelectSeq(@, LAMBDA a : rg.heap[a].id \in keep)]

\* SpaceWindow.equals on two objects
ObjectEquals(h, a, b) ==
    /\ h[a].id = h[b].id
    /\ h[a].position = h[b].position
    /\ h[a].size = h[b].size
    /\ h[a].moving = h[b].moving
    /\ h[a].resizing = h[b].resizing

\* new Snapping('horizontal', interactedWindow, relatedWindows, leftWindow, rightWindow)
\* with its references as addresses; relatedWindows is a new Map of the same objects
Reference(interacted, left, right) ==
    [interactedWindow |-> interacted, relatedWindows |-> {left, right},
     leftWindow |-> left, rightWindow |-> right]

\* snap.relatedWindows.has(id)
Holds(h, s, id) == \E a \in s.relatedWindows : h[a].id = id

\* Snapping.equals(other), other possibly null
ReferenceEquals(h, s, other) ==
    /\ other # <<>>
    /\ ObjectEquals(h, s.leftWindow, other[1].leftWindow)
    /\ ObjectEquals(h, s.rightWindow, other[1].rightWindow)

\* snapsRef.current.filter(snap => !snap.equals(existingSnap))
WithoutReference(h, list, e) == SelectSeq(list, LAMBDA s : ~ReferenceEquals(h, s, <<e>>))

\* snapsRef.current.filter(snap => !snap.relatedWindows.has(id))
WithoutHolder(h, list, id) == SelectSeq(list, LAMBDA s : ~Holds(h, s, id))

RECURSIVE DropLostReferences(_, _, _)
\* for (const existingSnap of existingSnaps): drop it when neither member is nearby
DropLostReferences(rg, existingSnaps, nearbyIds) ==
    IF existingSnaps = <<>> THEN rg
    ELSE LET e == Head(existingSnaps)
             rg1 == IF /\ rg.heap[e.leftWindow].id \notin nearbyIds
                       /\ rg.heap[e.rightWindow].id \notin nearbyIds
                    THEN [rg EXCEPT !.committed = WithoutReference(rg.heap, @, e)]
                    ELSE rg
         IN  DropLostReferences(rg1, Tail(existingSnaps), nearbyIds)

RECURSIVE FormReferences(_, _, _, _)
\* for (const nearbyWindow of nearbyWindows.values()): the Snapping is built with the
\* nearby object and with windowsRef.current.get(id)
FormReferences(rg, closure, id, nearby) ==
    IF nearby = <<>> THEN rg
    ELSE LET n == Head(nearby)
             interactedWindow == Get(rg, id)
             hits == {i \in 1..Len(rg.committed) :
                         /\ Holds(rg.heap, rg.committed[i], id)
                         /\ Holds(rg.heap, rg.committed[i], rg.heap[n].id)}
             rg1 == IF hits = {} THEN rg
                    ELSE [rg EXCEPT !.committed = WithoutReference(rg.heap, @,
                              rg.committed[CHOOSE i \in hits : \A j \in hits : i <= j])]
             cp == rg1.heap[n].clockPosition
             newSnapping == IF cp = 0 THEN Reference(interactedWindow, n, interactedWindow)
                            ELSE Reference(interactedWindow, interactedWindow, n)
             rg2 == IF cp \in {0, 1} /\ ~ReferenceEquals(rg1.heap, newSnapping, closure)
                    THEN [rg1 EXCEPT !.tentative = <<newSnapping>>]
                    ELSE rg1
         IN  FormReferences(rg2, closure, id, Tail(nearby))

\* Space.onWindowBoundsChange of an unstaged window, by object
BoundsChangeObjects(rg, closure, id, pos, sz, mov, res) ==
    LET rg1 == SpaceWindowsSetObject(rg, SpaceWindow(id, pos, sz, mov, res, FALSE))
        hint(a) == Classify(rg1.heap[a], id, pos, sz, props.snapThreshold)
        nearby == SelectSeq(rg1.registry, LAMBDA a : hint(a) # Undefined)
        rg2 == [rg1 EXCEPT !.heap = [a \in DOMAIN @ |->
                                        IF a \in Range(nearby)
                                        THEN [@[a] EXCEPT !.clockPosition = hint(a)]
                                        ELSE @[a]]]
        existingSnaps == SelectSeq(rg2.committed, LAMBDA s : Holds(rg2.heap, s, id))
        rg3 == DropLostReferences(rg2, existingSnaps,
                                  {rg2.heap[a].id : a \in Range(nearby)})
    IN  IF Ambiguous(nearby)
        THEN [rg3 EXCEPT !.tentative = <<>>, !.committed = WithoutHolder(rg3.heap, @, id)]
        ELSE IF ~PolicyPermits(mov, res) THEN rg3
        ELSE FormReferences(rg3, closure, id, nearby)

\* Space.onUserBoundsChangeEnd of an unstaged window, by object
BoundsChangeEndObjects(rg, closure, id, mov, res) ==
    LET rg0 == [rg EXCEPT !.tentative = <<>>]
    IN  IF ~(closure # <<>> /\ PolicyEnds(mov, res)) THEN rg0
        ELSE IF Get(rg0, id) = 0 THEN rg0
        ELSE
        LET s == closure[1]
            other == IF ObjectEquals(rg0.heap, s.leftWindow, Get(rg0, id))
                     THEN s.rightWindow ELSE s.leftWindow
            rg1 == [rg0 EXCEPT !.committed = WithoutHolder(rg0.heap, @, id)]
        IN  IF rg1.heap[other].staged THEN rg1
            ELSE IF rg1.heap[other].clockPosition \notin {0, 1}
            THEN [rg1 EXCEPT !.committed = SelectSeq(@, LAMBDA x :
                      /\ ~Holds(rg1.heap, x, id)
                      /\ ~Holds(rg1.heap, x, rg1.heap[other].id))]
            ELSE [rg1 EXCEPT !.committed = Append(@, s)]

\* the refs and state a handler leaves behind, and the record of the step
RegistryBecomes(rg, name, ids) ==
    /\ heap' = rg.heap
    /\ registry' = rg.registry
    /\ tentative' = rg.tentative
    /\ committed' = rg.committed
    /\ registryOp' = [op |-> name, ids |-> ids, heap |-> heap, registry |-> registry,
                      tentative |-> tentative, committed |-> committed]

\* the variables of the Space keyed by id
spaceVars == << windowsRef, objs, snapping, snaps, snapsRef, toSnap, unmountedWindows,
                pc, lastEval, lastOp, snapDrag, snapMoving, applied >>

\* Window w mounts where its host last placed it: the TitleBar's dragging effect, the
\* staged effect and the dragging effect's second report, all closed over the same
\* snapping
RegistryMount(w) ==
    /\ ~mounted[w]
    /\ Len(heap) < MaxObjects
    /\ mounted' = [mounted EXCEPT ![w] = TRUE]
    /\ LET rg1 == BoundsChangeEndObjects(RegistryState, tentative, w, FALSE, FALSE)
           rg2 == BoundsChangeObjects(rg1, tentative, w, position[w], size[w],
                                      TRUE, FALSE)
           rg3 == BoundsChangeEndObjects(rg2, tentative, w, FALSE, FALSE)
       IN  RegistryBecomes(rg3, "mount", {w})
    /\ UNCHANGED << env, props, position, size, staged, moving, resizing >>

\* TitleBar.onMouseDown on window w
RegistryMouseDown(w) ==
    /\ mounted[w] /\ \A v \in IdSet : ~moving[v]
    /\ moving' = [moving EXCEPT ![w] = TRUE]
    /\ RegistryBecomes(RegistryState, "mouseDown", {w})
    /\ UNCHANGED << env, props, mounted, position, size, staged, resizing >>

\* a pointer move while the title bar of w is dragged
RegistryMove(w, p) ==
    /\ mounted[w] /\ moving[w]
    /\ p # position[w]
    /\ position' = [position EXCEPT ![w] = p]
    /\ RegistryBecomes(BoundsChangeObjects(RegistryState, tentative, w, p, size[w],
                                           TRUE, FALSE), "move", {w})
    /\ UNCHANGED << env, props, mounted, size, staged, moving, resizing >>

\* the button is released
RegistryMouseUp(w) ==
    /\ mounted[w] /\ moving[w]
    /\ moving' = [moving EXCEPT ![w] = FALSE]
    /\ RegistryBecomes(BoundsChangeEndObjects(RegistryState, tentative, w, FALSE, FALSE),
                       "moveEnd", {w})
    /\ UNCHANGED << env, props, mounted, position, size, staged, resizing >>

\* Window w unmounts, and the Space's effect on [unmountedWindows] reaps the id the
\* queue holds: the Snaps of the list that hold it, and its record
RegistryUnmount(w) ==
    /\ mounted[w]
    /\ mounted' = [mounted EXCEPT ![w] = FALSE]
    /\ moving' = [moving EXCEPT ![w] = FALSE]
    /\ LET rg1 == [RegistryState EXCEPT !.committed = WithoutHolder(heap, @, w)]
       IN  RegistryBecomes(SpaceWindowsFilterObjects(rg1, IdSet \ {w}), "reap", {w})
    /\ UNCHANGED << env, props, position, size, staged, resizing >>

\* the places the host puts window w at by its position prop
HostPoints(w) == { InitialPosition[w], <<InitialPosition[w][1] + 10, InitialPosition[w][2]>> }

\* the host sets the position prop of window w, which is not being dragged: the Window's
\* bounds-change effect notifies the Space
RegistryPlace(w, p) ==
    /\ mounted[w] /\ ~moving[w]
    /\ p # position[w]
    /\ position' = [position EXCEPT ![w] = p]
    /\ RegistryBecomes(BoundsChangeObjects(RegistryState, tentative, w, p, size[w],
                                           moving[w], resizing[w]), "place", {w})
    /\ UNCHANGED << env, props, mounted, size, staged, moving, resizing >>

\* --------------------------------------------------------------------- the viewport
\* the sizes the host gives the Manager; the last is smaller than the window
ManagerSizes == { <<800, 600>>, <<400, 300>>, <<250, 200>>, <<150, 100>> }

\* the places a title-bar drag takes a window to when the viewport matters: inside the
\* default manager, partly out of it to the left, and partly out of it to the right and
\* below
ViewPoints == { <<100, 100>>, <<-50, 20>>, <<650, 500>> }

\* kitten.ts nonZeroPosition: a negative coordinate becomes 0
nonZeroPosition(p) ==
    << IF p[1] < 0 THEN 0 ELSE p[1], IF p[2] < 0 THEN 0 ELSE p[2] >>

\* the calls of onPositionChange the allowOutside effect makes, in order; each is
\* computed from the position of the render the effect belongs to
OutsideEffectCalls(w) ==
    IF allowOutside[w] THEN <<>>
    ELSE (IF position[w][1] + size[w][1] > managerSize[1]
             THEN << <<managerSize[1] - size[w][1], position[w][2]>> >> ELSE <<>>)
         \o (IF position[w][2] + size[w][2] > managerSize[2]
             THEN << <<position[w][1], managerSize[2] - size[w][2]>> >> ELSE <<>>)
         \o (IF position[w][1] < 0 THEN << <<0, position[w][2]>> >> ELSE <<>>)
         \o (IF position[w][2] < 0 THEN << <<position[w][1], 0>> >> ELSE <<>>)

\* the compensation effect gets past its two early returns
CompensationRuns(w) ==
    /\ compensatePositionOnViewportResize[w]
    /\ managerSize # prevManagerSize[w]

\* the position the compensation effect computes: right and bottom edges pulled inside
CompensatedPosition(w) ==
    << IF position[w][1] + size[w][1] > managerSize[1]
          THEN managerSize[1] - size[w][1] ELSE position[w][1],
       IF position[w][2] + size[w][2] > managerSize[2]
          THEN managerSize[2] - size[w][2] ELSE position[w][2] >>

\* the calls of onPositionChange the compensation effect makes
CompensationEffectCalls(w) ==
    IF CompensationRuns(w) /\ CompensatedPosition(w) # position[w]
       THEN << CompensatedPosition(w) >> ELSE <<>>

\* the calls of onPositionChange the third effect on the manager's size makes
ResizeEffectCalls(w) ==
    IF managerSize # prevManagerSize[w] THEN << nonZeroPosition(position[w]) >> ELSE <<>>

\* the dependencies of the three effects
OutsideEffectDeps == { "allowOutside", "position", "size", "managerSize" }
CompensationEffectDeps == { "managerSize", "prevManagerSize", "position", "size" }
ResizeEffectDeps == { "managerSize", "prevManagerSize", "position" }

\* the calls of onPositionChange of one commit of Window w: the effects whose
\* dependencies changed run in the order of their declaration
PositionCalls(w) ==
    (IF changed[w] \cap OutsideEffectDeps # {} THEN OutsideEffectCalls(w) ELSE <<>>)
    \o (IF changed[w] \cap CompensationEffectDeps # {} THEN CompensationEffectCalls(w) ELSE <<>>)
    \o (IF changed[w] \cap ResizeEffectDeps # {} THEN ResizeEffectCalls(w) ELSE <<>>)

\* the host's onPositionChange is a state setter: of the calls of one commit the last
\* one decides the next position
PositionSet(calls, p) == IF calls = <<>> THEN p ELSE calls[Len(calls)]

\* every effect of every Window has run with the rendered values
ViewSettled == \A w \in IdSet : mounted[w] => changed[w] = {}

\* the host gives the Manager another size: every Window renders with it
ManagerResize(m) ==
    /\ pc = "idle" /\ ViewSettled
    /\ m # managerSize
    /\ managerSize' = m
    /\ changed' = [w \in IdSet |-> IF mounted[w] THEN {"managerSize"} ELSE {}]
    /\ viewOp' = [op |-> "resize", position |-> position]
    /\ UNCHANGED << allowOutside, compensatePositionOnViewportResize, prevManagerSize,
                    prevPositionRef >>
    /\ UNCHANGED << env, props, mounted, position, size, staged, moving, resizing >>
    /\ UNCHANGED spaceVars

\* the effects of one commit of Window w: the three effects on the viewport, whose
\* position calls and setPrevManagerSize calls take effect with the next render, and the
\* bounds-change effect, which notifies the Space when the rendered position is not the
\* one of the previous commit (no resizer is used here, so the size is the previous one)
WindowCommit(w) ==
    /\ pc = "idle"
    /\ mounted[w] /\ changed[w] # {}
    /\ LET calls == PositionCalls(w)
           prev == IF \/ changed[w] \cap CompensationEffectDeps # {} /\ CompensationRuns(w)
                      \/ changed[w] \cap ResizeEffectDeps # {} /\ managerSize # prevManagerSize[w]
                      THEN managerSize ELSE prevManagerSize[w]
       IN  /\ position' = [position EXCEPT ![w] = PositionSet(calls, position[w])]
           /\ prevManagerSize' = [prevManagerSize EXCEPT ![w] = prev]
           /\ changed' = [changed EXCEPT ![w] =
                             (IF calls # <<>> THEN {"position"} ELSE {})
                             \cup (IF prev # prevManagerSize[w] THEN {"prevManagerSize"} ELSE {})]
    /\ prevPositionRef' = [prevPositionRef EXCEPT ![w] = position[w]]
    /\ IF position[w] # prevPositionRef[w]
          THEN /\ Becomes(onWindowBoundsChange(SpaceState, snapping, w, position[w], size[w],
                                               moving[w], resizing[w], staged[w]))
               /\ lastOp' = Op("commit", {w}, FALSE)
          ELSE UNCHANGED << windowsRef, objs, snapping, snaps, snapsRef, toSnap, lastEval,
                            lastOp >>
    /\ UNCHANGED << applied, env, props, unmountedWindows, mounted, size, staged, moving,
                    resizing, pc, snapDrag, snapMoving >>
    /\ UNCHANGED << managerSize, allowOutside, compensatePositionOnViewportResize, viewOp >>

\* a pointer move while the title bar of w is dragged, in a workspace where the viewport
\* matters: the bounds-change effect of the render notifies the Space, and the effects on
\* the viewport are due
ViewMove(w, p) ==
    /\ ViewSettled
    /\ TitleBarMove(w, p)
    /\ UNCHANGED << snapDrag, snapMoving >>
    /\ changed' = [changed EXCEPT ![w] = {"position"}]
    /\ prevPositionRef' = [prevPositionRef EXCEPT ![w] = p]
    /\ viewOp' = [op |-> "move", position |-> position]
    /\ UNCHANGED << managerSize, allowOutside, compensatePositionOnViewportResize,
                    prevManagerSize >>

\* the title bar of w is pressed or released in such a workspace
ViewMouseDown(w) ==
    /\ ViewSettled
    /\ TitleBarMouseDown(w)
    /\ UNCHANGED viewVars

ViewMouseUp(w) ==
    /\ ViewSettled
    /\ TitleBarMouseUp(w)
    /\ UNCHANGED << snapDrag, snapMoving >>
    /\ UNCHANGED viewVars

\* --------------------------------------------------------------- the Spaces carousel
\* the number of Space children of the Spaces component
SpacesCount == 3

\* Spaces props: scrollThreshold, swipeThreshold (bounceDelay is the delay of the timer)
scrollThreshold == 200
swipeThreshold == 200

\* Manager prop wheelSpaceSwitch (default)
wheelSpaceSwitch == TRUE

\* the wheel events the user produces: <<deltaX, deltaY>>
WheelEvents == { <<150, 0>>, <<-150, 0>>, <<0, 300>>, <<0, -300>> }

\* the horizontal distances of a touch from where it started (clientX - touchStartRef.x);
\* the touch does not move vertically
TouchDeltas == { 40, -150, 150, -300, 300 }

\* the farthest the scroll offset is followed
MaxScroll == 1900

\* Math.sign
Sign(x) == IF x > 0 THEN 1 ELSE IF x < 0 THEN -1 ELSE 0

\* Math.min(Math.max(0, s), spaces - 1)
ClampSpace(s) == IF s < 0 THEN 0 ELSE IF s > SpacesCount - 1 THEN SpacesCount - 1 ELSE s

\* space * size[0] * -1: the scroll offset that shows page s
PageOrigin(s) == s * managerSize[1] * (-1)

\* clearTimeout(bounceTimeoutRef.current): the referenced timer, if still pending, is
\* removed; bounceTimeoutRef 0 refers to no pending timer
ClearTimeout(pending, ref) ==
    IF ref = 0 THEN pending
    ELSE SubSeq(pending, 1, ref - 1) \o SubSeq(pending, ref + 1, Len(pending))

\* the test of the bounce callback, on the values its handler closed over:
\* Math.abs(scrollX - current_x) > scaleX(threshold)
BounceDecides(t) == Abs(t.scrollX - t.current_x) > scaleX(t.threshold)

\* the record of a step of the carousel: its name, its input, and the state it started in
WheelOp(name, arg) ==
    [op |-> name, arg |-> arg, wheelBusy |-> wheelBusy, space |-> space,
     scrollX |-> scrollX, timers |-> timers,
     interacting |-> \E w \in IdSet : mounted[w] /\ (moving[w] \/ resizing[w])]

\* the state of Windows and Space that the carousel leaves alone
CarouselLeaves ==
    /\ UNCHANGED << env, props, mounted, position, size, staged, moving, resizing >>
    /\ UNCHANGED spaceVars

\* Spaces.onWheel with the event ev on the carousel
Wheel(ev) ==
    /\ wheelOp' = WheelOp("wheel", ev)
    /\ IF wheelBusy \/ ~wheelSpaceSwitch
          THEN UNCHANGED << scrollX, timers, bounceTimeoutRef >>
          ELSE LET delta == IF scaleX(ev[1]) # 0 THEN scaleX(ev[1]) ELSE scaleY(ev[2])
                   current_x == space * managerSize[1]
                   kept == ClearTimeout(timers, bounceTimeoutRef)
               IN  /\ Abs(scrollX - delta) <= MaxScroll
                   /\ scrollX' = IF \/ scrollX - delta > 0 /\ space > 0
                                    \/ scrollX - delta < 0 /\ space < SpacesCount - 1
                                    THEN scrollX - delta ELSE scrollX
                   /\ timers' = Append(kept, [scrollX |-> scrollX, current_x |-> current_x,
                                              space |-> space, delta |-> delta,
                                              threshold |-> scrollThreshold])
                   /\ bounceTimeoutRef' = Len(kept) + 1
    /\ UNCHANGED << space, wheelBusy >>
    /\ CarouselLeaves

\* Spaces.onTouchMove with the touch dx to the right of where it started
TouchMove(dx) ==
    /\ wheelOp' = WheelOp("touchMove", <<dx, 0>>)
    /\ IF wheelBusy \/ ~wheelSpaceSwitch
          THEN UNCHANGED << scrollX, timers, bounceTimeoutRef >>
          ELSE LET scaled_delta == << -scaleX(dx), -scaleY(0) >>
                   delta == IF scaled_delta[1] # 0 THEN scaled_delta[1] ELSE scaled_delta[2]
                   current_x == space * managerSize[1]
                   kept == ClearTimeout(timers, bounceTimeoutRef)
               IN  /\ Abs(scrollX - delta) <= MaxScroll
                   /\ scrollX' = IF /\ \/ scrollX - scaled_delta[1] > 0 /\ space > 0
                                       \/ scrollX - scaled_delta[1] < 0 /\ space < SpacesCount - 1
                                    /\ 4 * Abs(scaled_delta[1]) > swipeThreshold
                                    THEN scrollX - delta ELSE PageOrigin(space)
                   /\ timers' = Append(kept, [scrollX |-> scrollX, current_x |-> current_x,
                                              space |-> space, delta |-> delta,
                                              threshold |-> swipeThreshold])
                   /\ bounceTimeoutRef' = Len(kept) + 1
    /\ UNCHANGED << space, wheelBusy >>
    /\ CarouselLeaves

\* the pending timer i fires: the bounce callback runs with the values its handler closed
\* over; when it changes the space, the host renders Spaces with the new space and the
\* effect on [space, size] sets the scroll offset
BounceFires(i) ==
    /\ i \in 1..Len(timers)
    /\ wheelOp' = WheelOp("bounce", <<i, 0>>)
    /\ LET t == timers[i]
           next == ClampSpace(t.space + Sign(t.delta))
       IN  IF BounceDecides(t)
              THEN /\ space' = next
                   /\ scrollX' = IF next # space THEN PageOrigin(next) ELSE scrollX
              ELSE /\ space' = space
                   /\ scrollX' = PageOrigin(t.space)
    /\ timers' = SubSeq(timers, 1, i - 1) \o SubSeq(timers, i + 1, Len(timers))
    /\ bounceTimeoutRef' = IF bounceTimeoutRef = i THEN 0
                           ELSE IF bounceTimeoutRef > i THEN bounceTimeoutRef - 1
                           ELSE bounceTimeoutRef
    /\ UNCHANGED wheelBusy
    /\ CarouselLeaves

\* ------------------------------------------------------------- the wheel-busy flag
\* the title bar of w is pressed with the mouse: the Window's effect on [moving] calls
\* setWheelBusy(moving)
WheelTitleBarMouseDown(w) ==
    /\ TitleBarMouseDown(w)
    /\ wheelBusy' = TRUE
    /\ wheelOp' = WheelOp("mouseDown", <<0, 0>>)
    /\ UNCHANGED << space, scrollX, timers, bounceTimeoutRef >>

\* a pointer move while the title bar of w is dragged
WheelTitleBarMove(w, p) ==
    /\ TitleBarMove(w, p)
    /\ wheelOp' = WheelOp("move", <<0, 0>>)
    /\ UNCHANGED << wheelBusy, space, scrollX, timers, bounceTimeoutRef >>

\* the button is released: the Window's effect on [moving] and the Manager's effect on
\* [lmb] both call setWheelBusy(false)
WheelTitleBarMouseUp(w) ==
    /\ TitleBarMouseUp(w)
    /\ wheelBusy' = FALSE
    /\ wheelOp' = WheelOp("moveEnd", <<0, 0>>)
    /\ UNCHANGED << space, scrollX, timers, bounceTimeoutRef >>

\* Resizer.onMouseDown: onMayResize(true), setDragging(true); nothing sets the flag
WheelResizerMouseDown(w) ==
    /\ ResizerMouseDown(w)
    /\ wheelOp' = WheelOp("resizerDown", <<0, 0>>)
    /\ UNCHANGED << wheelBusy, space, scrollX, timers, bounceTimeoutRef >>

\* Resizer.onTouchStart: setDragging(true), onMayResize(true), setWheelBusy(true)
WheelResizerTouchStart(w) ==
    /\ ResizerMouseDown(w)
    /\ wheelBusy' = TRUE
    /\ wheelOp' = WheelOp("resizerTouchStart", <<0, 0>>)
    /\ UNCHANGED << space, scrollX, timers, bounceTimeoutRef >>

\* a pointer move by d while a resizer of w is dragged
WheelResizerMove(w, d) ==
    /\ ResizerMove(w, d)
    /\ wheelOp' = WheelOp("resize", <<0, 0>>)
    /\ UNCHANGED << wheelBusy, space, scrollX, timers, bounceTimeoutRef >>

\* the resizer is let go: Resizer.onTouchEnd calls setWheelBusy(false), and after a mouse
\* button is released the Manager's effect on [lmb] does
WheelResizerUp(w) ==
    /\ ResizerMouseUp(w)
    /\ wheelBusy' = FALSE
    /\ wheelOp' = WheelOp("resizeEnd", <<0, 0>>)
    /\ UNCHANGED << space, scrollX, timers, bounceTimeoutRef >>

\* Window w mounts while the others are as they are: the reports of MountWith, and the
\* Window's effect on [moving] calls setWheelBusy(moving) with its own moving, false
WheelMount(w) ==
    /\ pc = "idle"
    /\ ~mounted[w]
    /\ lastOp' = Op("mount", {w}, FALSE)
    /\ mounted' = [mounted EXCEPT ![w] = TRUE]
    /\ LET sp == MountWith(SpaceState, snapping, <<w>>)
       IN  /\ Becomes(sp)
           /\ pc' = After(sp)
           /\ applied' = AppliedAfter(sp)
    /\ wheelBusy' = FALSE
    /\ wheelOp' = WheelOp("mount", <<0, 0>>)
    /\ UNCHANGED << env, props, unmountedWindows, position, size, staged, moving, resizing >>
    /\ UNCHANGED << space, scrollX, timers, bounceTimeoutRef >>

\* the toSnap effect of the Space runs
WheelToSnapEffect ==
    /\ ToSnapEffect
    /\ wheelOp' = WheelOp("toSnap", <<0, 0>>)
    /\ UNCHANGED << wheelBusy, space, scrollX, timers, bounceTimeoutRef >>

\* ------------------------------------------------------------------ specification
\* Spec and SnapControlSpec follow the bounds of the Windows and the snap engine; the
\* focus and z-index bookkeeping of the same handlers is followed by FocusSpec
FocusKept == UNCHANGED focusVars

\* in these specifications the pointer is followed by its drags alone; StagingSpec follows
\* its position, its buttons and the staging zone
PointerKept == UNCHANGED pointerVars
ElsewhereKept == UNCHANGED elsewhereVars

\* --------------------------------------------- the listeners of a Window's renders
\* a pointer move while the title bar of w is dragged, with the listener effect of the
\* render that follows: the position changed, so moveEventCallback is a new function
ListenerMove(w, p) ==
    /\ Len(listeners["move"]) < MaxListeners
    /\ TitleBarMove(w, p)
    /\ UNCHANGED << snapDrag, snapMoving >>
    /\ callbackGen' = [callbackGen EXCEPT ![w].move = @ + 1]
    /\ listeners' = ListenerEffect(listeners, callbackGen', w)

\* a pointer move while the right resizer of w is dragged, with the listener effect of
\* the render that follows: the size changed, so resizeEventCallback is a new function
ListenerResize(w, d) ==
    /\ Len(listeners["resize"]) < MaxListeners
    /\ ResizerMove(w, d)
    /\ UNCHANGED << snapDrag, snapMoving >>
    /\ callbackGen' = [callbackGen EXCEPT ![w].resize = @ + 1]
    /\ listeners' = ListenerEffect(listeners, callbackGen', w)

\* a step of the viewport leaves the object registry alone, and a step of the registry
\* the viewport
HeapKept == UNCHANGED heapVars
ViewKept == UNCHANGED viewVars
CarouselKept == UNCHANGED carouselVars
DispatcherKept == UNCHANGED dispatcherVars
StageKept == UNCHANGED stageVars

Next ==
    \/ \E w \in env.draggable : TitleBarMouseDown(w) /\ FocusKept /\ PointerKept /\ ElsewhereKept
    \/ \E w \in env.draggable : \E p \in DropPoints(w) : TitleBarMove(w, p) /\ FocusKept /\ PointerKept /\ ElsewhereKept
    \/ \E w \in env.draggable : TitleBarMouseUp(w) /\ FocusKept /\ PointerKept /\ ElsewhereKept
    \/ ToSnapEffect /\ FocusKept /\ PointerKept /\ ElsewhereKept
    \/ \E w \in env.resizable : ResizerMouseDown(w) /\ FocusKept /\ PointerKept /\ ElsewhereKept
    \/ \E w \in env.resizable, d \in ResizeDeltas : ResizerMove(w, d) /\ FocusKept /\ PointerKept /\ ElsewhereKept
    \/ \E w \in env.resizable : ResizerMouseUp(w) /\ FocusKept /\ PointerKept /\ ElsewhereKept
    \/ \E w \in env.stageable, b \in BOOLEAN : StagedChange(w, b) /\ FocusKept /\ PointerKept /\ ElsewhereKept
    \/ \E gone \in SUBSET env.unmountable : Unmount(gone) /\ FocusKept /\ PointerKept /\ ElsewhereKept
    \/ Reap /\ FocusKept /\ PointerKept /\ ElsewhereKept
    \/ SyncSnapsRef /\ FocusKept /\ PointerKept /\ ElsewhereKept

Spec == Init /\ [][Next]_vars

\* the workspace whose committed Snaps are dragged by their shared controls
SnapControlInit == Start(SnapControlScenarios)

SnapControlNext ==
    \/ \E w \in env.draggable : TitleBarMouseDown(w) /\ FocusKept /\ PointerKept /\ ElsewhereKept
    \/ \E w \in env.draggable : \E p \in DropPoints(w) : TitleBarMove(w, p) /\ FocusKept /\ PointerKept /\ ElsewhereKept
    \/ \E w \in env.draggable : TitleBarMouseUp(w) /\ FocusKept /\ PointerKept /\ ElsewhereKept
    \/ ToSnapEffect /\ FocusKept /\ PointerKept /\ ElsewhereKept
    \/ \E k \in SUBSET env.ids : SnapMoverMouseDown(k) /\ FocusKept /\ PointerKept /\ ElsewhereKept
    \/ \E d \in MoverDeltas : SnapMoverMove(d) /\ FocusKept /\ PointerKept /\ ElsewhereKept
    \/ SnapMoverMouseUp /\ FocusKept /\ PointerKept /\ ElsewhereKept
    \/ \E k \in SUBSET env.ids : SnapResizerMouseDown(k) /\ FocusKept /\ PointerKept /\ ElsewhereKept
    \/ \E d \in SnapResizerDeltas : SnapResizerMove(<<d, 0>>) /\ FocusKept /\ PointerKept /\ ElsewhereKept
    \/ SnapResizerMouseUp /\ FocusKept /\ PointerKept /\ ElsewhereKept

SnapControlSpec == SnapControlInit /\ [][SnapControlNext]_vars

\* the workspace whose focus and z-index are followed: every handler with its focus part
FocusInit == Start(FocusScenarios) /\ props.scale = <<1, 1>> /\ props.snapWith = "all"

FocusNext ==
    \/ Commit /\ PointerKept /\ ElsewhereKept
    \/ \E w \in env.clickable : ContentClick(w) /\ PointerKept /\ ElsewhereKept
    \/ \E w \in env.draggable : FocusTitleBarMouseDown(w) /\ PointerKept /\ ElsewhereKept
    \/ \E w \in env.draggable : \E p \in DropPoints(w) :
            Settled /\ TitleBarMove(w, p) /\ FocusKept /\ PointerKept /\ ElsewhereKept
    \/ \E w \in env.draggable : Settled /\ TitleBarMouseUp(w) /\ FocusKept /\ PointerKept /\ ElsewhereKept
    \/ ToSnapEffect /\ FocusKept /\ PointerKept /\ ElsewhereKept
    \/ \E ws \in SUBSET env.pinnable : ToggleAlwaysOnTop(ws) /\ PointerKept /\ ElsewhereKept
    \/ \E w \in env.late : MountWindow(w) /\ PointerKept /\ ElsewhereKept
    \/ \E gone \in SUBSET env.unmountable : FocusUnmount(gone) /\ PointerKept /\ ElsewhereKept
    \/ Reap /\ FocusKept /\ PointerKept /\ ElsewhereKept
    \/ SyncSnapsRef /\ FocusKept /\ PointerKept /\ ElsewhereKept

FocusSpec == FocusInit /\ [][FocusNext]_vars

\* the workspace of narrow windows, dragged by their title bars
ProximityInit == Start(ProximityScenarios)

ProximityNext ==
    \/ \E w \in env.draggable : TitleBarMouseDown(w) /\ FocusKept /\ PointerKept /\ ElsewhereKept
    \/ \E w \in env.draggable : \E p \in DropPoints(w) : TitleBarMove(w, p) /\ FocusKept /\ PointerKept /\ ElsewhereKept
    \/ \E w \in env.draggable : TitleBarMouseUp(w) /\ FocusKept /\ PointerKept /\ ElsewhereKept
    \/ ToSnapEffect /\ FocusKept /\ PointerKept /\ ElsewhereKept

ProximitySpec == ProximityInit /\ [][ProximityNext]_vars

\* the workspace whose snapped windows take the focus in turn
SnapFocusInit ==
    Start(SnapFocusScenarios) /\ props.scale = <<1, 1>> /\ props.snapWith = "all"

SnapFocusNext ==
    \/ Commit /\ PointerKept /\ ElsewhereKept
    \/ \E w \in env.clickable : ContentClick(w) /\ PointerKept /\ ElsewhereKept
    \/ \E w \in env.draggable : FocusTitleBarMouseDown(w) /\ PointerKept /\ ElsewhereKept
    \/ \E w \in env.draggable : \E p \in DropPoints(w) :
            Settled /\ TitleBarMove(w, p) /\ FocusKept /\ PointerKept /\ ElsewhereKept
    \/ \E w \in env.draggable : Settled /\ TitleBarMouseUp(w) /\ FocusKept /\ PointerKept /\ ElsewhereKept
    \/ ToSnapEffect /\ FocusKept /\ PointerKept /\ ElsewhereKept

SnapFocusSpec == SnapFocusInit /\ [][SnapFocusNext]_vars

\* the Space whose records and references are told apart by object
SpaceKept == UNCHANGED spaceVars

RegistryInit == Start(RegistryScenarios)

RegistryNext ==
    \/ \E w \in env.late : RegistryMount(w) /\ SpaceKept /\ ViewKept /\ CarouselKept /\ FocusKept /\ PointerKept /\ DispatcherKept /\ StageKept
    \/ \E w \in env.draggable : RegistryMouseDown(w) /\ SpaceKept /\ ViewKept /\ CarouselKept /\ FocusKept /\ PointerKept /\ DispatcherKept /\ StageKept
    \/ \E w \in env.draggable : \E p \in DropPoints(w) :
            RegistryMove(w, p) /\ SpaceKept /\ ViewKept /\ CarouselKept /\ FocusKept /\ PointerKept /\ DispatcherKept /\ StageKept
    \/ \E w \in env.draggable : RegistryMouseUp(w) /\ SpaceKept /\ ViewKept /\ CarouselKept /\ FocusKept /\ PointerKept /\ DispatcherKept /\ StageKept
    \/ \E w \in env.unmountable : RegistryUnmount(w) /\ SpaceKept /\ ViewKept /\ CarouselKept /\ FocusKept /\ PointerKept /\ DispatcherKept /\ StageKept
    \/ \E w \in env.unmountable : \E p \in HostPoints(w) :
            RegistryPlace(w, p) /\ SpaceKept /\ ViewKept /\ CarouselKept /\ FocusKept /\ PointerKept /\ DispatcherKept /\ StageKept

RegistrySpec == RegistryInit /\ [][RegistryNext]_vars

\* the workspace whose Manager the host resizes while one window is dragged about
ViewportInit == Start(ViewportScenarios) /\ props.scale = <<1, 1>>

ViewportNext ==
    \/ \E m \in ManagerSizes : ManagerResize(m) /\ FocusKept /\ PointerKept /\ HeapKept /\ CarouselKept /\ DispatcherKept /\ StageKept
    \/ \E w \in env.ids : WindowCommit(w) /\ FocusKept /\ PointerKept /\ HeapKept /\ CarouselKept /\ DispatcherKept /\ StageKept
    \/ \E w \in env.draggable : ViewMouseDown(w) /\ FocusKept /\ PointerKept /\ HeapKept /\ CarouselKept /\ DispatcherKept /\ StageKept
    \/ \E w \in env.draggable : \E p \in ViewPoints : ViewMove(w, p) /\ FocusKept /\ PointerKept /\ HeapKept /\ CarouselKept /\ DispatcherKept /\ StageKept
    \/ \E w \in env.draggable : ViewMouseUp(w) /\ FocusKept /\ PointerKept /\ HeapKept /\ CarouselKept /\ DispatcherKept /\ StageKept

ViewportSpec == ViewportInit /\ [][ViewportNext]_vars

\* the same workspace with the scheduling React gives the effects: a commit whose effects
\* are pending runs them
ClampingSpec ==
    /\ ViewportInit /\ [][ViewportNext]_vars
    /\ WF_vars(\E w \in IdSet :
                  WindowCommit(w) /\ FocusKept /\ PointerKept /\ HeapKept /\ CarouselKept
                                  /\ DispatcherKept /\ StageKept)

\* the workspace under a carousel: a window is dragged by its title bar or resized while
\* another one mounts and the user turns the wheel
WheelInit == Start(WheelScenarios) /\ props.scale = <<1, 1>> /\ props.snapWith = "all"

WheelNext ==
    \/ \E w \in env.draggable : WheelTitleBarMouseDown(w) /\ FocusKept /\ PointerKept /\ HeapKept /\ ViewKept /\ DispatcherKept /\ StageKept
    \/ \E w \in env.draggable : \E p \in DropPoints(w) : WheelTitleBarMove(w, p) /\ FocusKept /\ PointerKept /\ HeapKept /\ ViewKept /\ DispatcherKept /\ StageKept
    \/ \E w \in env.draggable : WheelTitleBarMouseUp(w) /\ FocusKept /\ PointerKept /\ HeapKept /\ ViewKept /\ DispatcherKept /\ StageKept
    \/ \E w \in env.resizable : WheelResizerMouseDown(w) /\ FocusKept /\ PointerKept /\ HeapKept /\ ViewKept /\ DispatcherKept /\ StageKept
    \/ \E w \in env.resizable : WheelResizerTouchStart(w) /\ FocusKept /\ PointerKept /\ HeapKept /\ ViewKept /\ DispatcherKept /\ StageKept
    \/ \E w \in env.resizable, d \in ResizeDeltas : WheelResizerMove(w, d) /\ FocusKept /\ PointerKept /\ HeapKept /\ ViewKept /\ DispatcherKept /\ StageKept
    \/ \E w \in env.resizable : WheelResizerUp(w) /\ FocusKept /\ PointerKept /\ HeapKept /\ ViewKept /\ DispatcherKept /\ StageKept
    \/ \E w \in env.late : WheelMount(w) /\ FocusKept /\ PointerKept /\ HeapKept /\ ViewKept /\ DispatcherKept /\ StageKept
    \/ WheelToSnapEffect /\ FocusKept /\ PointerKept /\ HeapKept /\ ViewKept /\ DispatcherKept /\ StageKept
    \/ \E ev \in WheelTurns : Wheel(ev) /\ FocusKept /\ PointerKept /\ HeapKept /\ ViewKept /\ DispatcherKept /\ StageKept
    \/ \E i \in 1..MaxTimers : BounceFires(i) /\ FocusKept /\ PointerKept /\ HeapKept /\ ViewKept /\ DispatcherKept /\ StageKept

WheelSpec == WheelInit /\ [][WheelNext]_vars

\* the carousel alone: wheel and swipe input and the bounce timers
CarouselInit == Start(CarouselScenarios) /\ props.snapWith = "all"

CarouselNext ==
    \/ \E ev \in WheelEvents : Wheel(ev) /\ FocusKept /\ PointerKept /\ HeapKept /\ ViewKept /\ DispatcherKept /\ StageKept
    \/ \E dx \in TouchDeltas : TouchMove(dx) /\ FocusKept /\ PointerKept /\ HeapKept /\ ViewKept /\ DispatcherKept /\ StageKept
    \/ \E i \in 1..MaxTimers : BounceFires(i) /\ FocusKept /\ PointerKept /\ HeapKept /\ ViewKept /\ DispatcherKept /\ StageKept

CarouselSpec == CarouselInit /\ [][CarouselNext]_vars

\* the workspace whose snap option is false
SnapOffInit == StartWith(SnapOffScenarios, SnapOffConfigurations)

SnapOffNext ==
    \/ \E w \in env.draggable : TitleBarMouseDown(w) /\ FocusKept /\ PointerKept /\ ElsewhereKept
    \/ \E w \in env.draggable : \E p \in DropPoints(w) : TitleBarMove(w, p) /\ FocusKept /\ PointerKept /\ ElsewhereKept
    \/ \E w \in env.draggable : TitleBarMouseUp(w) /\ FocusKept /\ PointerKept /\ ElsewhereKept
    \/ ToSnapEffect /\ FocusKept /\ PointerKept /\ ElsewhereKept
    \/ \E w \in env.resizable : ResizerMouseDown(w) /\ FocusKept /\ PointerKept /\ ElsewhereKept
    \/ \E w \in env.resizable, d \in ResizeDeltas : ResizerMove(w, d) /\ FocusKept /\ PointerKept /\ ElsewhereKept
    \/ \E w \in env.resizable : ResizerMouseUp(w) /\ FocusKept /\ PointerKept /\ ElsewhereKept

SnapOffSpec == SnapOffInit /\ [][SnapOffNext]_vars

\* the workspace where a bystander's staged prop changes during a drag
BystanderInit == Start(BystanderScenarios)

BystanderNext ==
    \/ \E w \in env.draggable : TitleBarMouseDown(w) /\ FocusKept /\ PointerKept /\ ElsewhereKept
    \/ \E w \in env.draggable : \E p \in DropPoints(w) : TitleBarMove(w, p) /\ FocusKept /\ PointerKept /\ ElsewhereKept
    \/ \E w \in env.draggable : TitleBarMouseUp(w) /\ FocusKept /\ PointerKept /\ ElsewhereKept
    \/ ToSnapEffect /\ FocusKept /\ PointerKept /\ ElsewhereKept
    \/ \E w \in env.stageable, b \in BOOLEAN : StagedChange(w, b) /\ FocusKept /\ PointerKept /\ ElsewhereKept

BystanderSpec == BystanderInit /\ [][BystanderNext]_vars

\* the workspace whose committed Snap is dragged fast by its shared mover
JerkInit == Start(JerkScenarios) /\ props.scale = <<1, 1>> /\ props.snapWith = "all"

JerkNext ==
    \/ \E w \in env.draggable : TitleBarMouseDown(w) /\ FocusKept /\ PointerKept /\ ElsewhereKept
    \/ \E w \in env.draggable : \E p \in DropPoints(w) : TitleBarMove(w, p) /\ FocusKept /\ PointerKept /\ ElsewhereKept
    \/ \E w \in env.draggable : TitleBarMouseUp(w) /\ FocusKept /\ PointerKept /\ ElsewhereKept
    \/ ToSnapEffect /\ FocusKept /\ PointerKept /\ ElsewhereKept
    \/ \E k \in SUBSET env.ids : SnapMoverMouseDown(k) /\ FocusKept /\ PointerKept /\ ElsewhereKept
    \/ \E d \in MoverJerks : SnapMoverMove(d) /\ FocusKept /\ PointerKept /\ ElsewhereKept
    \/ SnapMoverMouseUp /\ FocusKept /\ PointerKept /\ ElsewhereKept

JerkSpec == JerkInit /\ [][JerkNext]_vars

\* the workspace whose windows are resized by their resizers, by the shared resizer of
\* their Snap and by snap commits
SizeBoundsInit == Start(SizeBoundsScenarios) /\ props.scale = <<1, 1>> /\ props.snapWith = "all"

SizeBoundsNext ==
    \/ \E w \in env.draggable : TitleBarMouseDown(w) /\ FocusKept /\ PointerKept /\ ElsewhereKept
    \/ \E w \in env.draggable : \E p \in DropPoints(w) : TitleBarMove(w, p) /\ FocusKept /\ PointerKept /\ ElsewhereKept
    \/ \E w \in env.draggable : TitleBarMouseUp(w) /\ FocusKept /\ PointerKept /\ ElsewhereKept
    \/ ToSnapEffect /\ FocusKept /\ PointerKept /\ ElsewhereKept
    \/ \E w \in env.resizable : ResizerMouseDown(w) /\ FocusKept /\ PointerKept /\ ElsewhereKept
    \/ \E w \in env.resizable, d \in ResizeDeltas : ResizerMove(w, d) /\ FocusKept /\ PointerKept /\ ElsewhereKept
    \/ \E w \in env.resizable : ResizerMouseUp(w) /\ FocusKept /\ PointerKept /\ ElsewhereKept
    \/ \E k \in SUBSET env.ids : SnapResizerMouseDown(k) /\ FocusKept /\ PointerKept /\ ElsewhereKept
    \/ \E d \in SnapResizerDeltas : SnapResizerMove(<<d, 0>>) /\ FocusKept /\ PointerKept /\ ElsewhereKept
    \/ SnapResizerMouseUp /\ FocusKept /\ PointerKept /\ ElsewhereKept

SizeBoundsSpec == SizeBoundsInit /\ [][SizeBoundsNext]_vars

\* the workspace whose windows are resized by the resizers of their left and top edges
\* and of the corners next to them
EdgeInit == Start(EdgeScenarios)

EdgeNext ==
    \/ \E w \in env.resizable, direction \in EdgeDirections :
           EdgeResizerMouseDown(w, direction) /\ FocusKept /\ PointerKept /\ ElsewhereKept
    \/ \E w \in env.resizable, direction \in EdgeDirections, d \in EdgeDeltas :
           EdgeResizerMove(w, direction, d) /\ FocusKept /\ PointerKept /\ ElsewhereKept
    \/ \E w \in env.resizable : ResizerMouseUp(w) /\ FocusKept /\ PointerKept /\ ElsewhereKept
    \/ ToSnapEffect /\ FocusKept /\ PointerKept /\ ElsewhereKept

EdgeSpec == EdgeInit /\ [][EdgeNext]_vars

\* the workspace whose dispatcher is followed while a window is dragged, resized,
\* rendered again and unmounted
ListenerInit == Start(ListenerScenarios) /\ props.scale = <<1, 1>> /\ props.snapWith = "all"

ListenerKept ==
    FocusKept /\ PointerKept /\ HeapKept /\ ViewKept /\ CarouselKept /\ StageKept

ListenerNext ==
    \/ \E w \in env.draggable : TitleBarMouseDown(w) /\ DispatcherKept /\ ListenerKept
    \/ \E w \in env.draggable : \E p \in DropPoints(w) : ListenerMove(w, p) /\ ListenerKept
    \/ \E w \in env.draggable : TitleBarMouseUp(w) /\ DispatcherKept /\ ListenerKept
    \/ \E w \in env.resizable : ResizerMouseDown(w) /\ DispatcherKept /\ ListenerKept
    \/ \E w \in env.resizable, d \in ResizeDeltas : ListenerResize(w, d) /\ ListenerKept
    \/ \E w \in env.resizable : ResizerMouseUp(w) /\ DispatcherKept /\ ListenerKept
    \/ \E gone \in SUBSET env.unmountable : Unmount(gone) /\ DispatcherKept /\ ListenerKept
    \/ Reap /\ DispatcherKept /\ ListenerKept
    \/ SyncSnapsRef /\ DispatcherKept /\ ListenerKept

ListenerSpec == ListenerInit /\ [][ListenerNext]_vars

\* the workspace whose windows are staged by a drag or by the stage button and unstaged
\* by a click
UnstageInit == Start(UnstageScenarios) /\ props.scale = <<1, 1>> /\ props.snapWith = "all"

UnstageKept == FocusKept /\ HeapKept /\ ViewKept /\ CarouselKept /\ DispatcherKept

UnstageNext ==
    \/ \E w \in env.draggable, b \in Buttons, g \in GrabOffsets : StagePress(w, b, g) /\ UnstageKept
    \/ \E w \in env.draggable, q \in UnstagePoints : StageDrag(w, q) /\ UnstageKept
    \/ \E w \in env.draggable, b \in Buttons : StageRelease(w, b) /\ UnstageKept
    \/ \E w \in env.stageable : StageButton(w) /\ PointerKept /\ UnstageKept
    \/ \E w \in env.stageable : UnstageClick(w) /\ PointerKept /\ UnstageKept
    \/ ToSnapEffect /\ PointerKept /\ StageKept /\ UnstageKept

UnstageSpec == UnstageInit /\ [][UnstageNext]_vars

\* the workspace where a click in one window unmounts another: the commits in the order
\* React runs them
CloseInit == Start(CloseScenarios) /\ props.scale = <<1, 1>> /\ props.snapWith = "all"

CloseNext ==
    \/ Commit /\ pc # "sync" /\ (pc = "reap" => FirstCommitPending) /\ PointerKept /\ ElsewhereKept
    \/ \E w \in env.draggable : FocusTitleBarMouseDown(w) /\ PointerKept /\ ElsewhereKept
    \/ \E w \in env.draggable : \E p \in DropPoints(w) :
            Settled /\ TitleBarMove(w, p) /\ FocusKept /\ PointerKept /\ ElsewhereKept
    \/ \E w \in env.draggable : Settled /\ TitleBarMouseUp(w) /\ FocusKept /\ PointerKept /\ ElsewhereKept
    \/ ToSnapEffect /\ FocusKept /\ PointerKept /\ ElsewhereKept
    \/ \E w \in env.clickable : ContentClick(w) /\ PointerKept /\ ElsewhereKept
    \/ \E w \in env.clickable, gone \in SUBSET env.unmountable :
            ClickClose(w, gone) /\ PointerKept /\ ElsewhereKept
    \/ ReapCommit /\ PointerKept /\ ElsewhereKept
    \/ SyncSnapsRef /\ FocusKept /\ PointerKept /\ ElsewhereKept

CloseSpec == CloseInit /\ [][CloseNext]_vars

\* the workspace of A and B under the configurations of margin and threshold
MarginInit == StartWith(SnapOffScenarios, MarginConfigurations)

MarginSpec == MarginInit /\ [][SnapOffNext]_vars

\* the workspace where a member of a Snap is unstaged while a control of the Snap is
\* held (pressed and not yet moved)
SupersedeInit == Start(SupersedeScenarios)

SupersedeNext ==
    \/ \E w \in env.draggable : TitleBarMouseDown(w) /\ FocusKept /\ PointerKept /\ ElsewhereKept
    \/ \E w \in env.draggable : \E p \in DropPoints(w) : TitleBarMove(w, p) /\ FocusKept /\ PointerKept /\ ElsewhereKept
    \/ \E w \in env.draggable : TitleBarMouseUp(w) /\ FocusKept /\ PointerKept /\ ElsewhereKept
    \/ ToSnapEffect /\ FocusKept /\ PointerKept /\ ElsewhereKept
    \/ \E w \in env.stageable, b \in BOOLEAN : StagedChange(w, b) /\ FocusKept /\ PointerKept /\ ElsewhereKept
    \/ \E k \in SUBSET env.ids : SnapMoverMouseDown(k) /\ FocusKept /\ PointerKept /\ ElsewhereKept
    \/ SnapMoverMouseUp /\ FocusKept /\ PointerKept /\ ElsewhereKept
    \/ \E k \in SUBSET env.ids : SnapResizerMouseDown(k) /\ FocusKept /\ PointerKept /\ ElsewhereKept
    \/ SnapResizerMouseUp /\ FocusKept /\ PointerKept /\ ElsewhereKept

SupersedeSpec == SupersedeInit /\ [][SupersedeNext]_vars

\* the workspace whose title bars are dragged into and out of the staging zone, the
\* pointer and its buttons followed
StagingInit == Start(StagingScenarios)

StagingNext ==
    \/ \E w \in env.draggable, b \in Buttons, g \in GrabOffsets :
            TitleBarPress(w, b, g) /\ FocusKept /\ ElsewhereKept
    \/ \E w \in env.draggable, q \in PointerPoints : TitleBarDrag(w, q) /\ FocusKept /\ ElsewhereKept
    \/ \E w \in env.draggable, b \in Buttons : TitleBarRelease(w, b) /\ FocusKept /\ ElsewhereKept
    \/ ToSnapEffect /\ FocusKept /\ PointerKept /\ ElsewhereKept

StagingSpec == StagingInit /\ [][StagingNext]_vars

\* ----------------------------------------------------------------------- claims
\* the committed Snaps a window is a member of
SnapsOf(list, w) == {i \in 1..Len(list) : RelatedHas(list[i], w)}

\* C1: every window id is a member of at most one Snap of the committed list.
C1_AtMostOneSnapPerWindow ==
    \A w \in IdSet : Cardinality(SnapsOf(snaps, w)) <= 1

\* C2: every window id is the rightWindow of at most one committed Snap and the
\* leftWindow of at most one committed Snap.
C2_OnePartnerPerSide ==
    \A w \in IdSet :
        /\ Cardinality({i \in 1..Len(snaps) : snaps[i].leftWindow = w}) <= 1
        /\ Cardinality({i \in 1..Len(snaps) : snaps[i].rightWindow = w}) <= 1

\* C3: when windows that are members of committed Snaps unmount, then right after the
\* reap that follows their cleanups those Snaps are gone from the committed list, the
\* windows' records are gone from the registry and the unmounted-ids queue is empty.
C3_UnmountReaped ==
    (lastOp.op = "reap") =>
        /\ unmountedWindows = <<>>
        /\ \A w \in lastOp.ids :
              SnapsOf(lastOp.snaps, w) # {} =>
                  /\ SnapsOf(snaps, w) = {}
                  /\ ~RegistryHas(SpaceState, w)

\* C4: right after the cleanups of the windows that unmount in one update cycle, each
\* of them is in the unmounted-ids queue.
C4_AllUnmountsQueued ==
    (lastOp.op = "unmount") => \A w \in lastOp.ids : w \in Range(unmountedWindows)

\* C5: whenever a window's staged flag becomes true, the processing of that staged
\* change leaves no committed Snap having the window as a member, whatever tentative
\* Snapping was held when it started.
C5_StagingDropsSnaps ==
    (lastOp.op = "staged" /\ lastOp.arg) =>
        \A w \in lastOp.ids : staged[w] /\ SnapsOf(snaps, w) = {}

\* C5 happens: a window that was a member of a committed Snap was staged while a
\* tentative Snapping was held.
C5_Witness ==
    /\ lastOp.op = "staged" /\ lastOp.arg
    /\ lastOp.snapping # <<>>
    /\ \E w \in lastOp.ids : SnapsOf(lastOp.snaps, w) # {}

\* C6: in every proximity evaluation the candidate set contains neither the interacting
\* window nor any window that is currently staged.
C6_CandidatesExcludeSelfAndStaged ==
    lastEval # <<>> =>
        /\ lastEval[1].id \notin Range(lastEval[1].nearby)
        /\ \A k \in Range(lastEval[1].nearby) : ~staged[k]

\* the edges of a registry record, right and bottom as position plus scaled size
LeftOf(r) == r.position[1]
TopOf(r) == r.position[2]
RightOf(r) == r.position[1] + r.size[1] * props.scale[1]
BottomOf(r) == r.position[2] + r.size[2] * props.scale[2]

\* the top and bottom gaps of records a and b are within the threshold
VerticallyAligned(a, b) ==
    /\ Abs(TopOf(b) - TopOf(a)) <= props.snapThreshold
    /\ Abs(BottomOf(b) - BottomOf(a)) <= props.snapThreshold

\* C7: in every proximity evaluation of a window A, every other registered window B is
\* a candidate with edge hint 0 iff |B.right - A.left|, |B.top - A.top| and
\* |B.bottom - A.bottom| are all within snapThreshold; otherwise it is a candidate with
\* edge hint 1 iff |B.left - A.right| and the same top and bottom gaps are within
\* snapThreshold; otherwise it is no candidate; and no B is a candidate twice.
C7_Classification ==
    lastEval # <<>> =>
        LET e == lastEval[1]
            a == objs[e.id]
        IN  /\ Cardinality(Range(e.nearby)) = Len(e.nearby)
            /\ Range(e.nearby) \subseteq Range(windowsRef)
            /\ \A k \in Range(windowsRef) \ {e.id} :
                  LET b == objs[k]
                      isLeft == /\ Abs(RightOf(b) - LeftOf(a)) <= props.snapThreshold
                                /\ VerticallyAligned(a, b)
                      isRight == /\ Abs(LeftOf(b) - RightOf(a)) <= props.snapThreshold
                                 /\ VerticallyAligned(a, b)
                  IN  IF isLeft THEN k \in Range(e.nearby) /\ e.hint[k] = 0
                      ELSE IF isRight THEN k \in Range(e.nearby) /\ e.hint[k] = 1
                      ELSE k \notin Range(e.nearby)

\* C7 happens: under a scale other than (1,1) an evaluation classified one window as a
\* left neighbour and rejected another whose unscaled edges would have qualified.
C7_Witness ==
    /\ lastEval # <<>>
    /\ props.scale # <<1, 1>>
    /\ \E k \in Range(lastEval[1].nearby) : lastEval[1].hint[k] = 0
    /\ \E k \in Range(windowsRef) \ Range(lastEval[1].nearby) :
          ClassifyUnscaled(objs[k], lastEval[1].id, objs[lastEval[1].id].position,
                           objs[lastEval[1].id].size, props.snapThreshold) # Undefined

\* C8: when a bounds-change notification for window W finds zero or more than two
\* qualifying neighbours, the handler leaves no tentative Snapping, no ToSnap and no
\* committed Snap having W as a member; and that is the state of the workspace when the
\* notification is the last handler of the step (a drag, a resize, the toSnap effect).
C8_AmbiguousClears ==
    (lastEval # <<>> /\ (Len(lastEval[1].nearby) = 0 \/ Len(lastEval[1].nearby) > 2)) =>
        /\ lastEval[1].snapping = <<>>
        /\ lastEval[1].toSnap = <<>>
        /\ SnapsOf(lastEval[1].snaps, lastEval[1].id) = {}
        /\ lastOp.op \in {"move", "resize", "toSnap"} =>
              /\ snapping = <<>>
              /\ toSnap = <<>>
              /\ SnapsOf(snaps, lastEval[1].id) = {}

\* C8 happens: a window that was a member of a committed Snap was dragged to a place
\* with three qualifying neighbours.
C8_Witness ==
    /\ lastEval # <<>> /\ lastOp.op = "move"
    /\ Len(lastEval[1].nearby) > 2
    /\ SnapsOf(lastOp.snaps, lastEval[1].id) # {}

\* the ToSnap the claim C9 expects when window w, released with size sz, held Snapping s
\* with partner p: placed snapMargin right of p's scaled right edge when p is the left
\* neighbour, snapMargin left of p by w's scaled width when p is the right neighbour,
\* at p's top, keeping w's width and taking p's height
ExpectedToSnap(s, w, p) ==
    [target |-> w,
     windows |-> <<s.leftWindow, s.rightWindow>>,
     newPosition |->
        IF s.leftWindow = p
        THEN <<position[p][1] + size[p][1] * props.scale[1] + props.snapMargin,
               position[p][2]>>
        ELSE <<position[p][1] - lastOp.size[w][1] * props.scale[1] - props.snapMargin,
               position[p][2]>>,
     newSize |-> <<lastOp.size[w][1], size[p][2]>>]

\* C9: when a drag or resize of window W ends while a tentative Snapping of W with
\* partner P is held and the snapWith policy matches, the ToSnap produced is for W, with
\* newPosition = (P.x + scaled P.width + snapMargin, P.y) if P is the left neighbour or
\* (P.x - scaled W.width - snapMargin, P.y) if P is the right neighbour, and newSize =
\* (W.width, P.height); and the toSnap effect gives W that position and size.
C9_ToSnapLayout ==
    /\ (lastOp.op \in {"moveEnd", "resizeEnd"} /\ lastOp.snapping # <<>>) =>
          LET s == lastOp.snapping[1]
              w == CHOOSE x \in lastOp.ids : TRUE
              p == CHOOSE x \in s.relatedWindows : x # w
          IN  (s.interactedWindow = w /\ PolicyEnds(moving[w], resizing[w])) =>
                  toSnap = <<ExpectedToSnap(s, w, p)>>
    /\ (lastOp.op = "toSnap" /\ lastOp.toSnap # <<>>) =>
          LET t == lastOp.toSnap[1]
          IN  mounted[t.target] =>
                  position[t.target] = t.newPosition /\ size[t.target] = t.newSize

\* C9 happens: B, released at (305,105) beside A at (100,100) of size (200,150) with
\* margin 20, got the ToSnap to (320,100) of height 150 and was moved there.
C9_Witness ==
    /\ lastOp.op = "toSnap"
    /\ props.scale = <<1, 1>> /\ props.snapMargin = 20
    /\ lastOp.position["B"] = <<305, 105>>
    /\ position["A"] = <<100, 100>> /\ size["A"] = <<200, 150>>
    /\ lastOp.toSnap = <<[target |-> "B", windows |-> <<"A", "B">>,
                          newPosition |-> <<320, 100>>, newSize |-> <<200, 150>>]>>
    /\ position["B"] = <<320, 100>> /\ size["B"] = <<200, 150>>

\* the scenario of C10: scale (1,1), snapThreshold 50, the windows A and B mounted and
\* unstaged, A stationary at (100,100) with size (200,150), and the last evaluation is
\* for B of size (200,150) dragged to (305,105)
C10_Scenario ==
    /\ env.ids = {"A", "B"}
    /\ mounted["A"] /\ mounted["B"] /\ ~staged["A"] /\ ~staged["B"]
    /\ props.scale = <<1, 1>> /\ props.snapThreshold = 50
    /\ lastEval # <<>> /\ lastOp.op = "move" /\ lastEval[1].id = "B"
    /\ position["A"] = <<100, 100>> /\ size["A"] = <<200, 150>>
    /\ position["B"] = <<305, 105>> /\ size["B"] = <<200, 150>>

\* C10 (as stated): in the scenario exactly one candidate forms for B and the edge hint
\* recorded for that candidate is 1.
C10_HintOne ==
    C10_Scenario =>
        /\ Len(lastEval[1].nearby) = 1
        /\ \A k \in Range(lastEval[1].nearby) : lastEval[1].hint[k] = 1

\* C10 (amended): in the scenario exactly one candidate forms for B, it is A, and the
\* edge hint recorded for it is 0 (A is B's left neighbour); a Snapping formed from it
\* has A as leftWindow and B as rightWindow.
C10_HintZero ==
    C10_Scenario =>
        /\ lastEval[1].nearby = <<"A">>
        /\ lastEval[1].hint["A"] = 0
        /\ objs["A"].clockPosition = 0
        /\ snapping # <<>> =>
              snapping[1].leftWindow = "A" /\ snapping[1].rightWindow = "B"

\* C10 happens: the scenario was reached and the Snapping of A and B is held.
C10_Witness ==
    /\ C10_Scenario
    /\ snapping # <<>>
    /\ snapping[1].interactedWindow = "B"

\* the partner of the target in the two windows of ToSnap t
PartnerOf(t) == CHOOSE p \in Range(t.windows) : p # t.target

\* C11: once the target window W has applied a ToSnap, W's edge is exactly snapMargin
\* away from the facing edge of the partner P (scaled widths, manager space), and the
\* commit computed again for the same pair and roles from that geometry yields W's
\* position and size again.
C11_CommitIdempotent ==
    (lastOp.op = "toSnap" /\ applied # <<>>) =>
        LET t == lastOp.toSnap[1]
            w == t.target
            p == PartnerOf(t)
            again == SnapLayout([objs[p] EXCEPT !.position = position[p], !.size = size[p]],
                                size[w])
        IN  /\ t.windows[1] = p =>
                  position[w][1] - (position[p][1] + scaleX(size[p][1])) = props.snapMargin
            /\ t.windows[2] = p =>
                  position[p][1] - (position[w][1] + scaleX(size[w][1])) = props.snapMargin
            /\ objs[p].clockPosition = (IF t.windows[1] = p THEN 0 ELSE 1)
            /\ again.position = position[w]
            /\ <<revertScaleX(again.size[1]), revertScaleY(again.size[2])>> = size[w]

\* C12: each ToSnap produced by a commit is applied exactly once and only by its target:
\* the ToSnap object held is never applied twice nor by another window, once its effect
\* has run its target has applied it, and the step that applies it gives the target
\* newPosition and newSize and leaves the bounds of every other window alone.
C12_AppliedOnce ==
    /\ Len(applied) <= 1
    /\ toSnap # <<>> => \A i \in 1..Len(applied) : applied[i] = toSnap[1].target
    /\ (toSnap # <<>> /\ pc # "toSnap") => applied = <<toSnap[1].target>>
    /\ lastOp.op = "toSnap" =>
          LET t == lastOp.toSnap[1]
          IN  /\ position[t.target] = t.newPosition /\ size[t.target] = t.newSize
              /\ \A v \in IdSet \ {t.target} :
                    position[v] = lastOp.position[v] /\ size[v] = lastOp.size[v]

\* the Snap whose shared control the last step dragged, as it was rendered before the step
DraggedSnap ==
    lastOp.snaps[CHOOSE i \in 1..Len(lastOp.snaps) :
                    /\ SnapKey(lastOp.snaps[i]) = lastOp.ids
                    /\ \A j \in 1..Len(lastOp.snaps) :
                          SnapKey(lastOp.snaps[j]) = lastOp.ids => i <= j]

\* C13: for every committed Snap and every pointer delta (dx,dy) delivered by a drag of
\* its shared mover, both members' positions change by exactly (dx,dy) in that step, so
\* the offset between the two members is the same before and after.
C13_MoverMovesBoth ==
    lastOp.op = "snapMove" =>
        LET l == DraggedSnap.leftWindow
            r == DraggedSnap.rightWindow
        IN  /\ \A m \in {l, r} :
                  position[m] = <<lastOp.position[m][1] + lastOp.delta[1],
                                  lastOp.position[m][2] + lastOp.delta[2]>>
            /\ position[r][1] - position[l][1] = lastOp.position[r][1] - lastOp.position[l][1]
            /\ position[r][2] - position[l][2] = lastOp.position[r][2] - lastOp.position[l][2]

\* C13 happens: the mover of the Snap of A and B delivered (30,10) under a horizontal
\* scale of 2 and both members moved.
C13_Witness ==
    /\ lastOp.op = "snapMove" /\ lastOp.ids = {"A", "B"} /\ lastOp.delta = <<30, 10>>
    /\ props.scale = <<2, 1>>
    /\ position["A"] # lastOp.position["A"] /\ position["B"] # lastOp.position["B"]

\* C14: a step of a drag of a Snap's shared mover or resizer (press, delta, release)
\* changes the position and size of that Snap's members only: every window that is not
\* a member keeps its position, size, staged flag and z-index (the z-index state and
\* the z-index it is rendered with).
C14_DragFrame ==
    [][lastOp'.op \in {"snapMoveStart", "snapMove", "snapMoveEnd",
                       "snapResizeStart", "snapResize", "snapResizeEnd"} =>
          \A w \in IdSet \ lastOp'.ids :
              /\ position'[w] = position[w]
              /\ size'[w] = size[w]
              /\ staged'[w] = staged[w]
              /\ zIndex'[w] = zIndex[w]
              /\ RenderedZIndex(w)' = RenderedZIndex(w)]_vars

\* C14 happens: a control of the Snap of A and B delivered a delta that changed a
\* member's bounds while the non-member D is mounted.
C14_Witness ==
    /\ lastOp.op \in {"snapMove", "snapResize"} /\ lastOp.ids = {"A", "B"}
    /\ mounted["D"]
    /\ position["B"] # lastOp.position["B"]

Unclamped(w, dw) == lastOp.size[w][1] + dw >= DEFAULT_MIN_SIZE[1]

C15_ClampWitness ==
    /\ lastOp.op = "snapResize" /\ lastOp.ids = {"A", "B"}
    /\ ~Unclamped("A", revertScaleX(lastOp.delta[1]))
    /\ size["A"][1] = DEFAULT_MIN_SIZE[1]

\* the horizontal distance between the left member's right edge and the right member's
\* left edge, for given positions and sizes
EdgeGap(l, r, pos, sz) == pos[r][1] - (pos[l][1] + scaleX(sz[l][1]))

\* C16: a drag of a Snap's shared resizer keeps the shared edge coincident: the
\* horizontal distance between the left member's right edge and the right member's left
\* edge is the same before and after every resizer delta, including deltas that would
\* push a member's width below its minSize.
C16_SharedEdge ==
    lastOp.op = "snapResize" =>
        LET l == DraggedSnap.leftWindow
            r == DraggedSnap.rightWindow
        IN  EdgeGap(l, r, position, size) = EdgeGap(l, r, lastOp.position, lastOp.size)

\* the counter part of a z-index: the value without the always-on-top offset
CounterOf(z) == z % ALWAYS_ON_TOP_Z_INDEX

\* the last event was a focus change: one window asked for focus that was not the
\* focused window
FocusChanged(op) == op.op = "focus" /\ op.ids # {op.focusedWindow}

\* the last event was the toggle of one window's alwaysOnTop
ToggledOne(op) == op.op = "toggle" /\ Cardinality(op.ids) = 1

\* the window the last focus change gave focus to already had the z-index of the counter
AlreadyOnTop(op) ==
    \E w \in op.ids : op.zIndex[w] # 0 /\ CounterOf(op.zIndex[w]) = op.windowZIndexCounter

\* C17: the z-index counter never decreases over any sequence of focus changes,
\* always-on-top toggles, mounts and unmounts, and each single focus change or
\* always-on-top toggle raises it by exactly 1 once the triggered effects have settled.
C17_RaisedByOne ==
    [][/\ windowZIndexCounter' >= windowZIndexCounter
       /\ Settled' /\ (FocusChanged(focusOp') \/ ToggledOne(focusOp')) =>
              windowZIndexCounter' = focusOp'.windowZIndexCounter + 1]_vars

\* C17 amended: the counter never decreases; a single always-on-top toggle raises it by
\* exactly 1, and a single focus change raises it by exactly 1 unless the window that
\* gains focus already has the z-index of the counter, in which case it stays as it is.
C17_RaisedUnlessOnTop ==
    [][/\ windowZIndexCounter' >= windowZIndexCounter
       /\ Settled' /\ ToggledOne(focusOp') =>
              windowZIndexCounter' = focusOp'.windowZIndexCounter + 1
       /\ Settled' /\ FocusChanged(focusOp') =>
              windowZIndexCounter' = focusOp'.windowZIndexCounter +
                                     (IF AlreadyOnTop(focusOp') THEN 0 ELSE 1)]_vars

\* C17 happens: A took the focus from B, the effects settled and the counter is one
\* higher than before.
C17_Witness ==
    /\ Settled /\ focusOp.op = "focus" /\ focusOp.ids = {"A"} /\ focusOp.focusedWindow = "B"
    /\ windowZIndexCounter = focusOp.windowZIndexCounter + 1
    /\ zIndex["A"] = windowZIndexCounter

\* C17, the exception happens: A took the focus from B while it had the z-index of the
\* counter, and the counter stayed.
C17_OnTopWitness ==
    /\ Settled /\ FocusChanged(focusOp) /\ focusOp.ids = {"A"} /\ AlreadyOnTop(focusOp)
    /\ windowZIndexCounter = focusOp.windowZIndexCounter

\* C18: counter values are never reused: two different mounted windows that were each
\* assigned a z-index, also in the same update cycle, hold different counter values.
C18_NeverReused ==
    \A a, b \in IdSet :
        a # b /\ mounted[a] /\ mounted[b] /\ zIndex[a] # 0 /\ zIndex[b] # 0 =>
            CounterOf(zIndex[a]) # CounterOf(zIndex[b])

\* C19: once the effects have settled, a mounted window's focused flag is true iff its
\* id equals focusedWindow, so at most one window is focused, and after a focus request
\* the window that requested it is the focused one.
C19_FocusRule ==
    Settled =>
        /\ \A w \in IdSet : mounted[w] => (focused[w] <=> focusedWindow = w)
        /\ Cardinality({w \in IdSet : mounted[w] /\ focused[w]}) <= 1
        /\ focusOp.op = "focus" => \A w \in focusOp.ids : focused[w] /\ focusedWindow = w

\* C19 happens: A asked for focus while B was the focused window, the effects settled,
\* A is focused and B, still mounted, is not.
C19_Witness ==
    /\ Settled /\ focusOp.op = "focus" /\ focusOp.ids = {"A"} /\ focusOp.focusedWindow = "B"
    /\ mounted["B"] /\ focused["A"] /\ ~focused["B"] /\ focusedWindow = "A"


\* the pointer is inside the staging zone: its x is below the scaled stagingDistance
InZone == pointer[1] < scaleX(DEFAULT_STAGING_DISTANCE)

\* this step is the release of button b
Released(b) == buttons = {b} /\ buttons' = {}

\* C20: a title-bar drag sets a window's staged flag to true only if the primary button
\* is released while the window is moving and the pointer x is below the scaled
\* stagingDistance; a drag that entered the staging zone and left it again before the
\* release, or a release outside the zone, never stages the window
C20_StagedByPrimaryRelease ==
    [][\A w \in IdSet :
          /\ (staged'[w] /\ ~staged[w]) => (Released("primary") /\ moving[w] /\ InZone)
          /\ (moving[w] /\ ~moving'[w] /\ ~InZone) => (staged'[w] = staged[w])]_vars

\* C20 with any button in the place of the primary one: the staged flag becomes true
\* only in the release of the button that holds the drag, the window moving and the
\* pointer inside the zone, and a release outside the zone leaves the flag alone
C20_StagedByRelease ==
    [][\A w \in IdSet :
          /\ (staged'[w] /\ ~staged[w]) =>
                (\E b \in Buttons : Released(b)) /\ moving[w] /\ InZone
          /\ (moving[w] /\ ~moving'[w] /\ ~InZone) => (staged'[w] = staged[w])]_vars

\* C20: a button was released inside the zone and the window is staged
C20_ReleasedInZone ==
    \E w \in IdSet :
        /\ lastOp.op = "release" /\ lastOp.ids = {w} /\ lastOp.arg
        /\ staged[w] /\ InZone /\ ~lmb

\* C20: a drag that entered the zone was released outside it, the window not staged
C20_LeftZone ==
    \E w \in IdSet :
        /\ lastOp.op = "release" /\ lastOp.ids = {w} /\ ~lastOp.arg
        /\ enteredZone /\ ~InZone /\ ~staged[w]

\* this step commits a Snap: the handler appended it and left a new ToSnap
SnapCommitted == pc = "idle" /\ pc' = "toSnap"

\* this step leaves a tentative Snapping it did not start from
SnappingFormed == snapping' # <<>> /\ snapping' # snapping

\* the steps whose end-of-interaction notification is the end of a kind of interaction
\* the policy admits: a staged change reports a move end (the new TitleBar's)
EndsAdmitted ==
    CASE props.snapWith = "move" -> {"moveEnd", "staged"}
      [] props.snapWith = "resize" -> {"resizeEnd"}
      [] OTHER -> {"moveEnd", "resizeEnd", "staged"}

\* C22: the snapWith policy gates snapping by interaction kind: a tentative Snapping is
\* formed only from a notification whose moving / resizing tags the policy admits, and a
\* Snap is committed only when an interaction of an admitted kind ends (a move with
\* 'move', a resize with 'resize', either with 'all')
C22_PolicyGate ==
    [][/\ SnappingFormed =>
            \E w \in lastOp'.ids : PolicyPermits(moving[w], resizing[w])
       /\ SnapCommitted => lastOp'.op \in EndsAdmitted]_vars

\* C22, the formation half alone
C22_FormedByPolicy ==
    [][SnappingFormed => \E w \in lastOp'.ids : PolicyPermits(moving[w], resizing[w])]_vars

\* C22, the commit half when no staged prop changes: a Snap is committed only by the
\* end of a move ('move'), of a resize ('resize'), or of either ('all')
C22_CommittedByPolicy ==
    [][SnapCommitted /\ lastOp'.op # "staged" => lastOp'.op \in EndsAdmitted]_vars

\* what Space.onUserBoundsChangeEnd leaves when Window w, mounting now, reports the move
\* end of its new TitleBar: the first notification of a mount
FirstMountEnd(w) ==
    onUserBoundsChangeEnd(SpaceState, snapping, w, InitialSize[w], FALSE, FALSE, FALSE)

\* the engine is reset for id: no tentative Snapping, no ToSnap, no committed Snap of id
EngineReset(sp, id) ==
    /\ sp.snapping = <<>>
    /\ sp.toSnap = <<>>
    /\ \A i \in 1..Len(sp.snapsRef) : ~RelatedHas(sp.snapsRef[i], id)

\* C24: when the record of the notifying window is missing from the registry while an
\* end-of-interaction notification for its id is processed (a Snapping is held and the
\* policy test passes), the engine is reset for that id: the tentative Snapping and the
\* ToSnap are cleared and no committed Snap with that id remains
C24_MissingRecordReset ==
    [][\A w \in IdSet :
          (/\ lastOp'.op = "mount" /\ lastOp'.ids = {w}
           /\ ~RegistryHas(SpaceState, w)
           /\ snapping # <<>> /\ PolicyEnds(FALSE, FALSE))
          => EngineReset(FirstMountEnd(w), w)]_vars

\* C24: in the same case the tentative Snapping is cleared
C24_MissingRecordIdle ==
    [][\A w \in IdSet :
          (/\ lastOp'.op = "mount" /\ lastOp'.ids = {w}
           /\ ~RegistryHas(SpaceState, w)
           /\ snapping # <<>> /\ PolicyEnds(FALSE, FALSE))
          => FirstMountEnd(w).snapping = <<>>]_vars

\* C24: a window mounted while a Snapping was held and its record was missing
C24_Witness ==
    /\ lastOp.op = "mount"
    /\ lastOp.snapping # <<>>
    /\ \E w \in lastOp.ids : mounted[w] /\ w \in env.late

\* record b passes both the left-neighbour and the right-neighbour check of record a
BothSides(a, b) ==
    /\ Abs(RightOf(b) - LeftOf(a)) <= props.snapThreshold
    /\ Abs(LeftOf(b) - RightOf(a)) <= props.snapThreshold
    /\ VerticallyAligned(a, b)

\* C27: a candidate window that satisfies both the left-neighbour check and the
\* right-neighbour check in one evaluation is classified as left neighbour (edge hint 0),
\* never as right neighbour, and is the leftWindow of the Snapping formed with it
C27_BothSidesIsLeft ==
    lastEval # <<>> =>
        LET e == lastEval[1]
        IN  \A k \in Range(windowsRef) \ {e.id} :
                BothSides(objs[e.id], objs[k]) =>
                    /\ k \in Range(e.nearby)
                    /\ e.hint[k] = 0
                    /\ (e.snapping # <<>> /\ k \in e.snapping[1].relatedWindows) =>
                          /\ e.snapping[1].leftWindow = k
                          /\ e.snapping[1].rightWindow = e.id

\* C27 happens: an evaluation found a candidate on both sides and formed the Snapping
\* with it
C27_Witness ==
    /\ lastEval # <<>>
    /\ \E k \in Range(windowsRef) \ {lastEval[1].id} :
          /\ BothSides(objs[lastEval[1].id], objs[k])
          /\ lastEval[1].snapping # <<>>
          /\ k \in lastEval[1].snapping[1].relatedWindows

\* this step ends an interaction of window w: a move end, a resize end, or the end
\* notifications of a staged change
EndsInteraction(w) ==
    lastOp'.op \in {"moveEnd", "resizeEnd", "staged"} /\ lastOp'.ids = {w}

\* the tentative partner of w, held when the step starts, is staged
PartnerStaged(w) ==
    /\ snapping # <<>>
    /\ w \in snapping[1].relatedWindows
    /\ \E k \in snapping[1].relatedWindows \ {w} : staged[k]

\* no Snap was appended, no ToSnap produced, and no committed Snap holds w
NothingCommitted(w) ==
    /\ ~SnapCommitted
    /\ toSnap' = <<>> \/ toSnap' = toSnap
    /\ SnapsOf(snaps', w) = {}

\* C29: when an interaction of window W ends while W is staged or its tentative partner
\* is staged, no Snap is appended, no ToSnap is produced, and every committed Snap
\* containing W is removed
C29_StagedEndsCommitNothing ==
    [][\A w \in IdSet :
          (EndsInteraction(w) /\ (staged'[w] \/ PartnerStaged(w))) => NothingCommitted(w)]_vars

\* C29 for W itself staged
C29_OwnStagedCommitsNothing ==
    [][\A w \in IdSet : (EndsInteraction(w) /\ staged'[w]) => NothingCommitted(w)]_vars

\* C29: an interaction of a staged window that was a member of a committed Snap ended
C29_OwnStagedWitness ==
    \E w \in IdSet :
        /\ lastOp.op = "staged" /\ lastOp.ids = {w} /\ staged[w]
        /\ SnapsOf(lastOp.snaps, w) # {}

\* the committed list the evaluation of this step starts from: the staged effect of an
\* unstaged window runs after the move end its remounted title bar reported
EvaluatedList(w) ==
    IF lastOp'.op = "staged"
    THEN onUserBoundsChangeEnd(SpaceState, snapping, w, size[w], FALSE, resizing[w],
                               FALSE).snapsRef
    ELSE snapsRef

\* this step is a policy-permitted evaluation of window w with one or two candidates
PermittedEvaluation(w) ==
    /\ lastOp'.ids = {w}
    /\ \/ lastOp'.op = "move" /\ ~staged[w] /\ PolicyPermits(moving[w], resizing[w])
       \/ lastOp'.op = "resize" /\ ~staged[w] /\ PolicyPermits(moving[w], resizing[w])
       \/ lastOp'.op = "staged" /\ ~lastOp'.arg /\ PolicyPermits(TRUE, resizing[w])
    /\ lastEval' # <<>>
    /\ lastEval'[1].id = w
    /\ Len(lastEval'[1].nearby) \in {1, 2}

\* Snap s joins windows w and k
Joins(s, w, k) == w # k /\ {w, k} \subseteq s.relatedWindows

\* C28: during a policy-permitted evaluation with one or two candidates, a committed
\* Snap between the interacting window and a candidate is removed from the committed
\* list if neither its snapMoving nor its snapResizing flag is set, and is kept if it is
\* being dragged by its shared mover or resizer
C28_SupersedeUnlessDragged ==
    [][\A w \in IdSet :
          PermittedEvaluation(w) =>
              LET pre == EvaluatedList(w)
                  post == lastEval'[1].snaps
              IN  \A k \in Range(lastEval'[1].nearby), i \in 1..Len(pre) :
                      Joins(pre[i], w, k) =>
                          IF pre[i].snapMoving \/ pre[i].snapResizing
                          THEN \E j \in 1..Len(post) : post[j] = pre[i]
                          ELSE \A j \in 1..Len(post) : ~Joins(post[j], w, k)]_vars

\* C28, removal: a drag of a snapped window evaluated it next to its partner and the
\* Snap between them, dragged by none of its controls, left the list
C28_RemovedWitness ==
    /\ lastOp.op = "move" /\ lastEval # <<>>
    /\ \E w \in lastOp.ids, k \in Range(lastEval[1].nearby) :
          /\ lastEval[1].id = w
          /\ \E i \in 1..Len(lastOp.snaps) :
                /\ Joins(lastOp.snaps[i], w, k)
                /\ ~lastOp.snaps[i].snapMoving /\ ~lastOp.snaps[i].snapResizing
          /\ \A j \in 1..Len(lastEval[1].snaps) : ~Joins(lastEval[1].snaps[j], w, k)

\* C28, kept: a member of a Snap was evaluated next to its partner while a control of
\* the Snap was held, and the Snap is still in the list
C28_KeptWitness ==
    /\ lastOp.op = "staged" /\ ~lastOp.arg /\ lastEval # <<>>
    /\ \E w \in lastOp.ids, k \in Range(lastEval[1].nearby) :
          /\ lastEval[1].id = w
          /\ \E i \in 1..Len(lastOp.snaps) :
                /\ Joins(lastOp.snaps[i], w, k)
                /\ lastOp.snaps[i].snapMoving \/ lastOp.snaps[i].snapResizing
                /\ \E j \in 1..Len(lastEval[1].snaps) :
                      lastEval[1].snaps[j] = lastOp.snaps[i]

\* Snaps s and t are the same Snap but for the zIndex
SameSnap(s, t) == [s EXCEPT !.zIndex = 0] = [t EXCEPT !.zIndex = 0]

\* the Snaps of a list that do not hold window w, in their order
OtherSnaps(list, w) == SelectSeq(list, LAMBDA s : ~RelatedHas(s, w))

\* this step is the commit that settles the effects of a focus change to window w
FocusSettles(w) ==
    /\ ~Settled /\ Settled'
    /\ FocusChanged(focusOp) /\ focusOp.ids = {w} /\ focusOp' = focusOp

\* Snap s is the last element of the committed list, with the counter as its zIndex
RaisedLast(s) ==
    /\ snaps' # <<>>
    /\ SameSnap(snaps'[Len(snaps')], s)
    /\ snaps'[Len(snaps')].zIndex = windowZIndexCounter'

\* C23: when a window that is a member of a committed Snap gains focus, then once the
\* effects have settled that Snap's zIndex equals the workspace's current z-index
\* counter and that Snap is the last element of the committed list, while the relative
\* order of the other Snaps is unchanged
C23_OwningSnapRaised ==
    [][\A w \in IdSet :
          FocusSettles(w) =>
              /\ \A i \in 1..Len(snaps) : RelatedHas(snaps[i], w) => RaisedLast(snaps[i])
              /\ OtherSnaps(snaps', w) = OtherSnaps(snaps, w)]_vars

\* C23 for a window that is a member of one Snap only
C23_OnlySnapRaised ==
    [][\A w \in IdSet :
          (FocusSettles(w) /\ Cardinality(SnapsOf(snaps, w)) <= 1) =>
              /\ \A i \in 1..Len(snaps) : RelatedHas(snaps[i], w) => RaisedLast(snaps[i])
              /\ OtherSnaps(snaps', w) = OtherSnaps(snaps, w)]_vars

\* C23 for a window of one Snap happens: A took the focus while it was a member of the
\* first of two Snaps, the effects settled, and that Snap is the last of the list
C23_OnlySnapWitness ==
    /\ Settled /\ FocusChanged(focusOp) /\ Len(snaps) = 2
    /\ \E w \in focusOp.ids :
          /\ RelatedHas(snaps[2], w) /\ ~RelatedHas(snaps[1], w)
          /\ snaps[2].zIndex = windowZIndexCounter
          /\ snaps[1].zIndex < snaps[2].zIndex

\* the references held by the Snapping and the Snaps: leftWindow and rightWindow
HeldReferences ==
    {s.leftWindow : s \in Range(tentative) \cup Range(committed)}
        \cup {s.rightWindow : s \in Range(tentative) \cup Range(committed)}

\* the registry holds one record per window id
OneRecordPerId ==
    \A i, j \in 1..Len(registry) : heap[registry[i]].id = heap[registry[j]].id => i = j

\* this step registers bounds of window w, whose id the registry holds
SetOnPresent(w) ==
    /\ registryOp'.op \in {"move", "place"} /\ registryOp'.ids = {w}
    /\ Get(RegistryState, w) # 0

\* set for an id that is present leaves the record object in its place and gives it the
\* new position and size
UpdatedInPlace(w) ==
    /\ registry' = registry
    /\ heap'[Get(RegistryState, w)].position = position'[w]
    /\ heap'[Get(RegistryState, w)].size = size'[w]

\* the reap keeps the record objects of the ids it retains
RetainedByReap ==
    registryOp'.op = "reap" =>
        registry' = SelectSeq(registry, LAMBDA a : heap[a].id \notin registryOp'.ids)

\* every reference held by the Snapping or a Snap shows the bounds its window has now
ReferencesObserve ==
    \A a \in HeldReferences :
        mounted[heap[a].id] =>
            heap[a].position = position[heap[a].id] /\ heap[a].size = size[heap[a].id]

\* C26: the registry holds exactly one record per window id, and set(record) for an id
\* already present updates the existing record object in place (position, size, edge
\* hint) without replacing it, so the leftWindow/rightWindow references held by a
\* Snapping or Snap observe every later bounds change of their windows; filter and the
\* unmount reap keep the identity of the records they retain
C26_RecordsInPlace ==
    /\ [](OneRecordPerId /\ ReferencesObserve)
    /\ [][(\A w \in IdSet : SetOnPresent(w) => UpdatedInPlace(w)) /\ RetainedByReap]_vars

\* C26 but for the references: one record per id, set in place, identity kept by the reap
C26_RegistryInPlace ==
    /\ []OneRecordPerId
    /\ [][(\A w \in IdSet : SetOnPresent(w) => UpdatedInPlace(w)) /\ RetainedByReap]_vars

\* C26 for the references whose record the registry holds: they show the bounds their
\* window has now
C26_RegisteredReferencesObserve ==
    \A a \in HeldReferences :
        (mounted[heap[a].id] /\ a \in Range(registry)) =>
            heap[a].position = position[heap[a].id] /\ heap[a].size = size[heap[a].id]

\* C26, in place: a Snap holds the record of a window, and a later change of the
\* window's position was registered in that record
C26_InPlaceWitness ==
    /\ registryOp.op = "place" /\ committed # <<>>
    /\ \E s \in Range(registryOp.committed) \cap Range(committed) :
          \E a \in {s.leftWindow, s.rightWindow} :
              /\ registryOp.ids = {heap[a].id}
              /\ a \in Range(registry)
              /\ heap[a].position = position[heap[a].id]
              /\ registryOp.heap[a].position # heap[a].position

\* ---------------------------------------------------------------------------- C21
\* Window w is no larger than the manager
Fits(w) == size[w][1] <= managerSize[1] /\ size[w][2] <= managerSize[2]

\* the right and bottom edges of Window w are inside the manager
Inside(w) ==
    /\ position[w][1] + size[w][1] <= managerSize[1]
    /\ position[w][2] + size[w][2] <= managerSize[2]

\* every effect of the last change of the manager's size has run
ResizeSettled == viewOp.op = "resize" /\ ViewSettled

\* C21, first part: once all effects of a change of the manager's size have run, a window
\* that fits in the new size and has allowOutside unset lies inside the manager:
\* position + size <= managerSize componentwise
C21_ConfinedInside ==
    \A w \in IdSet :
        (mounted[w] /\ ResizeSettled /\ Fits(w) /\ ~allowOutside[w]) => Inside(w)

\* C21, second part: with allowOutside set, the position is the one the window had when
\* the manager's size changed
C21_ExemptUnchanged ==
    \A w \in IdSet :
        (mounted[w] /\ ResizeSettled /\ allowOutside[w]) => position[w] = viewOp.position[w]

\* C21: after the manager's size changes, a window that fits and has allowOutside unset
\* ends with position + size <= managerSize componentwise, and a window with allowOutside
\* set keeps its position
C21_ViewportCompensation == C21_ConfinedInside /\ C21_ExemptUnchanged

\* a confined window that overflowed the new size on both axes has been pulled inside
C21_ConfinedWitness ==
    /\ mounted["A"] /\ ResizeSettled /\ ~allowOutside["A"] /\ Fits("A")
    /\ viewOp.position["A"][1] + size["A"][1] > managerSize[1]
    /\ viewOp.position["A"][2] + size["A"][2] > managerSize[2]
    /\ Inside("A")

\* ---------------------------------------------------------------------------- C25
\* a window of the manager is being dragged by its title bar or resized by a resizer
Interacting == \E w \in IdSet : mounted[w] /\ (moving[w] \/ resizing[w])

\* while a window is dragged or resized the wheel-busy flag is true
C25_BusyWhileInteracting == Interacting => wheelBusy

\* a wheel event that arrives while a window is dragged or resized neither scrolls the
\* carousel nor starts a bounce timer nor changes the current space
C25_WheelIgnoredWhileInteracting ==
    (wheelOp.op = "wheel" /\ wheelOp.interacting) =>
        /\ scrollX = wheelOp.scrollX
        /\ space = wheelOp.space
        /\ timers = wheelOp.timers

\* C25: while any window of the manager is dragged by its title bar or resized by one of
\* its resizers (mouse or touch) the wheel-busy flag is true, so a wheel event on the
\* carousel neither scrolls it nor changes the current space, also when another window
\* mounts during the interaction
C25_WheelBusyWhileInteracting ==
    C25_BusyWhileInteracting /\ C25_WheelIgnoredWhileInteracting

\* while a window is dragged by its title bar and no other window has mounted since, the
\* flag is true and a wheel event is ignored
C25_BusyWhileDragged ==
    (~mounted["B"] /\ moving["A"]) =>
        /\ wheelBusy
        /\ wheelOp.op = "wheel" =>
              scrollX = wheelOp.scrollX /\ space = wheelOp.space /\ timers = wheelOp.timers

\* a wheel event has been ignored while the title bar of A was dragged
C25_IgnoredWitness ==
    /\ moving["A"] /\ wheelBusy
    /\ wheelOp.op = "wheel" /\ wheelOp.interacting
    /\ scrollX = wheelOp.scrollX /\ timers = wheelOp.timers

\* ---------------------------------------------------------------------------- C30
\* the timer that fired in the last step, with the values its callback closed over
FiredTimer == wheelOp.timers[wheelOp.arg[1]]

\* when the timer fired, the scroll offset was no farther from the origin of the current
\* page than the scaled threshold of the input that started the timer
WithinThreshold ==
    Abs(wheelOp.scrollX - PageOrigin(wheelOp.space)) <= scaleX(FiredTimer.threshold)

\* a bounce timer that fires within the threshold leaves the space and resets the scroll
\* offset to the origin of the current page
C30_BounceResets ==
    (wheelOp.op = "bounce" /\ WithinThreshold) =>
        /\ space = wheelOp.space
        /\ scrollX = PageOrigin(space)

\* at most one bounce timer is pending
C30_OneTimerPending == Len(timers) <= 1

\* C30: when the bounce timer fires after wheel or swipe input whose accumulated
\* displacement from the origin of the current page does not exceed the scaled threshold,
\* the space is unchanged and the scroll offset is reset to the origin of the current
\* page, for every space index; and at most one bounce timer is pending at any time
C30_BounceWithinThreshold == C30_BounceResets /\ C30_OneTimerPending

\* on page 0, a bounce timer that fires when neither the scroll offset nor the offset its
\* callback closed over is farther from the origin than the threshold leaves the space
\* and resets the scroll offset
C30_BounceResetsOnFirstPage ==
    (/\ wheelOp.op = "bounce" /\ WithinThreshold /\ wheelOp.space = 0
     /\ Abs(FiredTimer.scrollX) <= scaleX(FiredTimer.threshold)) =>
        /\ space = wheelOp.space
        /\ scrollX = PageOrigin(space)

\* a bounce timer has fired on page 0 after the carousel was scrolled within the threshold
C30_FirstPageWitness ==
    /\ wheelOp.op = "bounce" /\ wheelOp.space = 0
    /\ wheelOp.scrollX # 0 /\ WithinThreshold
    /\ space = 0 /\ scrollX = 0

\* ---------------------------------------------------------------------------- C31
\* C31: with the workspace option snap set to false, no tentative Snapping, no ToSnap and
\* no committed Snap is ever produced
C31_SnapOffProducesNothing ==
    ~props.snap => (snapping = <<>> /\ toSnap = <<>> /\ snaps = <<>> /\ snapsRef = <<>>)

\* ---------------------------------------------------------------------------- C32
\* this step delivers an end-of-interaction notification of window w: a move end, a
\* resize end, or the ends that a staged change or a mount of w reports
EndNotified(w) ==
    lastOp'.op \in {"moveEnd", "resizeEnd", "staged", "mount"} /\ lastOp'.ids = {w}

\* the tentative Snapping held when the step starts names another window than w as its
\* interactedWindow
OthersSnapping(w) == snapping # <<>> /\ snapping[1].interactedWindow # w

\* C32: a Snap is committed only by the end of an interaction of the window that the
\* held tentative Snapping names as interactedWindow: an end-of-interaction notification
\* of any other window appends no Snap and produces no ToSnap
C32_CommittedByInteractedOnly ==
    [][\A w \in IdSet :
          (EndNotified(w) /\ OthersSnapping(w)) =>
              /\ ~SnapCommitted
              /\ toSnap' = <<>> \/ toSnap' = toSnap]_vars

\* ---------------------------------------------------------------------------- C33
\* the last step was the toSnap effect: the target applied the ToSnap of a commit and the
\* Space processed the bounds-change notification that followed
ToSnapApplied == lastOp.op = "toSnap" /\ lastOp.toSnap # <<>>

\* the Snap of the windows of that ToSnap is in the committed list
AppendedSnapKept ==
    \E i \in 1..Len(snaps) : snaps[i].relatedWindows = Range(lastOp.toSnap[1].windows)

\* C33: for every configuration of snapMargin and snapThreshold, after a commit and after
\* the target window has applied the ToSnap and its bounds-change notification has been
\* processed, the Snap appended by that commit is still in the committed list
C33_SnapSurvivesToSnap == ToSnapApplied => AppendedSnapKept

\* C33 for the configurations whose margin does not exceed the threshold
C33_SurvivesWithinThreshold ==
    (ToSnapApplied /\ props.snapMargin <= props.snapThreshold) => AppendedSnapKept

\* a ToSnap has been applied with the margin equal to the threshold, and its Snap is kept
C33_WithinThresholdWitness ==
    /\ ToSnapApplied /\ props.snapMargin = props.snapThreshold
    /\ AppendedSnapKept

\* ---------------------------------------------------------------------------- C34
\* the Snap whose mover the last step dragged is in the committed list with the same left
\* and right members
DraggedSnapKept ==
    \E i \in 1..Len(snaps) :
        /\ snaps[i].leftWindow = DraggedSnap.leftWindow
        /\ snaps[i].rightWindow = DraggedSnap.rightWindow

\* C34: a drag of a Snap's shared mover never destroys that Snap: for every pointer
\* delta, after both members have moved and the bounds-change notification of each has
\* been processed, the Snap is still in the committed list with the same left and right
\* members
C34_MoverKeepsSnap == lastOp.op = "snapMove" => DraggedSnapKept

\* C34 for the pointer deltas that leave the moved left member within the snap threshold
\* of the right member's registered bounds
C34_KeptWithinThreshold ==
    (lastOp.op = "snapMove" /\ lastOp.delta \in MoverDeltas) => DraggedSnapKept

C34_WithinThresholdWitness ==
    /\ lastOp.op = "snapMove" /\ lastOp.delta \in MoverDeltas
    /\ DraggedSnapKept

\* ---------------------------------------------------------------------------- C35
\* size sz is within the configured bounds of window w, componentwise
WithinBounds(w, sz) ==
    /\ minSize[w] # <<>> => (sz[1] >= minSize[w][1] /\ sz[2] >= minSize[w][2])
    /\ maxSize[w] # <<>> => (sz[1] <= maxSize[w][1] /\ sz[2] <= maxSize[w][2])

\* C35: after any sequence of user resizes, shared-resizer drags and snap commits the
\* size of every window (each mounted within its bounds) satisfies
\* minSize <= size <= maxSize componentwise, for the bounds that are configured
C35_SizeWithinBounds ==
    \A w \in env.ids : WithinBounds(w, InitialSize[w]) => WithinBounds(w, size[w])

\* C35 for the two resize paths: a step of a window's resizer or of a shared resizer
\* leaves every size it sets within the bounds
C35_ResizesWithinBounds ==
    [][lastOp'.op \in {"resize", "snapResize"} =>
          \A w \in env.ids : size'[w] # size[w] => WithinBounds(w, size'[w])]_vars

C35_ResizeClampedWitness ==
    /\ lastOp.op = "resize" /\ lastOp.ids = {"C"}
    /\ size["C"][1] = minSize["C"][1]

\* ---------------------------------------------------------------------------- C36
\* effects of window w are pending and w has allowOutside unset
ClampingPending(w) == mounted[w] /\ ~allowOutside[w] /\ changed[w] # {}

\* window w is at a fixed point of its effects, at a non-negative position
ClampedFixedPoint(w) == changed[w] = {} /\ position[w][1] >= 0 /\ position[w][2] >= 0

\* C36: with allowOutside unset the position clamping of a window reaches a fixed point
\* after finitely many position updates, for every window size and manager size (a
\* window wider or taller than the manager included), and the position is non-negative
\* there
C36_ClampingTerminates ==
    \A w \in IdSet : ClampingPending(w) ~> ClampedFixedPoint(w)

\* C36 for a window that fits in the manager
C36_FittingTerminates ==
    \A w \in IdSet : (ClampingPending(w) /\ Fits(w)) ~> ClampedFixedPoint(w)

\* C36, second half: a fixed point of a window with allowOutside unset is non-negative
C36_FixedPointNonNegative ==
    \A w \in IdSet :
        (mounted[w] /\ ~allowOutside[w] /\ changed[w] = {}) =>
            (position[w][1] >= 0 /\ position[w][2] >= 0)

C36_FittingWitness ==
    /\ mounted["A"] /\ ~allowOutside["A"] /\ Fits("A") /\ changed["A"] = {}
    /\ viewOp.op = "move" /\ viewOp.position["A"] # position["A"]

\* ---------------------------------------------------------------------------- C37
\* the listeners of type t the dispatcher holds for Window w
ListenersOf(w, t) == {i \in 1..Len(listeners[t]) : listeners[t][i].window = w}

\* C37: after any sequence of position changes, size changes and re-renders of a
\* mounted window the dispatcher holds at most one listener of that window per event
\* type (move-start, move-end, move, resize), and after the window unmounts it holds
\* none of its listeners
C37_OneListenerPerType ==
    \A w \in env.ids : \A t \in EventTypes :
        /\ mounted[w] => Cardinality(ListenersOf(w, t)) <= 1
        /\ ~mounted[w] => ListenersOf(w, t) = {}

\* C37 for the two event types whose callbacks no render replaces: while the window is
\* mounted the dispatcher holds exactly one move-start and one move-end listener of it
C37_OneStartEndListener ==
    \A w \in env.ids : \A t \in {"move-start", "move-end"} :
        mounted[w] => Cardinality(ListenersOf(w, t)) = 1

C37_StartEndWitness ==
    /\ mounted["A"] /\ callbackGen["A"].move > 0 /\ callbackGen["A"].resize > 0
    /\ Cardinality(ListenersOf("A", "move-start")) = 1

\* ---------------------------------------------------------------------------- C38
\* the last step unstaged window w by a click
Unstaged(w) == stageOp.op = "unstage" /\ stageOp.ids = {w}

\* C38: staging then unstaging is a round trip on position: a window staged by the
\* release of a drag in the staging zone and then unstaged by a click is back at the
\* position it had when that drag began, and a window staged by the stage button and
\* then unstaged has the position it had when it was staged, also when a drag had
\* staged it earlier
C38_UnstageRoundTrip ==
    \A w \in IdSet :
        Unstaged(w) =>
            /\ stageOp.how[w] = "drag" => position[w] = stageOp.began[w]
            /\ stageOp.how[w] = "button" => position[w] = stageOp.stagedAt[w]

\* C38: the window was dragged into the staging zone from elsewhere, released there and
\* unstaged
C38_DragRoundTripWitness ==
    /\ Unstaged("B") /\ stageOp.how["B"] = "drag"
    /\ stageOp.stagedAt["B"] # stageOp.began["B"]
    /\ position["B"] = stageOp.began["B"]

\* C38: the window was staged by a drag, unstaged, staged by the button away from where
\* that drag began, and unstaged
C38_ButtonRoundTripWitness ==
    /\ Unstaged("B") /\ stageOp.how["B"] = "button" /\ stageOp.earlier["B"]
    /\ stageOp.stagedAt["B"] # movingStartPosition["B"]
    /\ position["B"] = stageOp.stagedAt["B"]

\* ---------------------------------------------------------------------------- C39
\* the left and right member of every committed Snap have a record in the registry
MembersRegistered ==
    \A i \in 1..Len(snaps) :
        /\ RegistryHas(SpaceState, snaps[i].leftWindow)
        /\ RegistryHas(SpaceState, snaps[i].rightWindow)

\* the update cycle of a reap: the commit of the reap and the commits after it
AfterReap == lastOp.op \in {"reap", "sync"}

\* C39: in every state reached after a reap of the unmounted-ids queue the leftWindow
\* and rightWindow of each committed Snap are ids of records of the registry: a Snap the
\* reap removed is not put back, from the stale snap list, by a bounds-change
\* notification or by the focus effect of the same update cycle
C39_ReapedSnapsStayOut == AfterReap => MembersRegistered

\* C39 for the reaps in whose commit the Space's focus effect does not run
C39_ReapedWithoutFocusEffect ==
    (pc = "sync" /\ lastOp.op = "reap" /\ ~lastOp.arg) => MembersRegistered

\* C39: a Snap of an unmounted window was removed by a reap whose commit did not run the
\* Space's focus effect
C39_WithoutFocusEffectWitness ==
    /\ pc = "sync" /\ lastOp.op = "reap" /\ ~lastOp.arg
    /\ \E i \in 1..Len(lastOp.snaps) : RelatedHas(lastOp.snaps[i], "B")
    /\ ~mounted["B"] /\ snaps = <<>>

\* ---------------------------------------------------------------------------- C40
\* the last step was a pointer delta delivered to the dragged resizer of window w
EdgeDragged(w) == lastOp.op \in EdgeDirections /\ lastOp.arg /\ lastOp.ids = {w}

\* position.x + scaled width and position.y + scaled height of window w
RightEdge(pos, sz, w) == pos[w][1] + scaleX(sz[w][1])
BottomEdge(pos, sz, w) == pos[w][2] + scaleY(sz[w][2])

\* the opposite edges of window w are where they were before the last step
OppositeEdgeKept(w) ==
    /\ lastOp.op \in {"left", "top-left", "bottom-left"} =>
           RightEdge(position, size, w) = RightEdge(lastOp.position, lastOp.size, w)
    /\ lastOp.op \in {"top", "top-left", "top-right"} =>
           BottomEdge(position, size, w) = BottomEdge(lastOp.position, lastOp.size, w)

\* the size the last step asked for was within minSize and maxSize
EdgeUnclamped(w) ==
    LET r == ResizerDelta(lastOp.op, lastOp.delta)
    IN  size[w] = <<lastOp.size[w][1] + r.size[1], lastOp.size[w][2] + r.size[2]>>

\* C40: a drag of the left, top, top-left, top-right or bottom-left resizer keeps the
\* opposite edge fixed, position.x + scaled width for a drag of the left edge and
\* position.y + scaled height for a drag of the top edge being the same before and after
\* every pointer delta, the deltas whose new size minSize or maxSize clamps included
C40_OppositeEdgeFixed == \A w \in IdSet : EdgeDragged(w) => OppositeEdgeKept(w)

\* C40 for the pointer deltas whose new size is within minSize and maxSize
C40_FixedWhileUnclamped ==
    \A w \in IdSet : (EdgeDragged(w) /\ EdgeUnclamped(w)) => OppositeEdgeKept(w)

\* C40: the top-left resizer of A changed both its width and its height, unclamped
C40_UnclampedWitness ==
    /\ EdgeDragged("A") /\ EdgeUnclamped("A") /\ lastOp.op = "top-left"
    /\ size["A"][1] # lastOp.size["A"][1] /\ size["A"][2] # lastOp.size["A"][2]
    /\ position["A"] # lastOp.position["A"]

=============================================================================
